---- MODULE Spec2Model ----
(***************************************************************************)
(* httptrace: one execution of ClientRef::execute (src/src/client.rs).     *)
(* The state is the position of the execute future, the coordinator of    *)
(* tcp_connect with its two channels and two timers, the spawned connect   *)
(* tasks, the transports they open, and the sequence of Recorder hooks     *)
(* the request's recorder has been handed.                                 *)
(*                                                                         *)
(* Time is an integer number of seconds since execute was called.  A      *)
(* sleep is ready once now has reached its instant; the task that waits    *)
(* on it may be polled later than that (by at most MaxLate).               *)
(***************************************************************************)
EXTENDS Integers, Sequences, FiniteSets, TLC

VARIABLES
    has_host,      \* request.uri().host().is_some()
    is_https,      \* request.uri().scheme() == Some(HTTPS)
    timeout,       \* *request.timeout().unwrap_or(&FAR_INTERVAL)
    tcp_timeout,   \* ClientRef::tcp_timeout
    now,           \* the runtime's clock
    pc,            \* await point of the execute future
    exec_ret,      \* what execute returned
    addrs,         \* length of the address list handed to tcp_connect
    conn,          \* what the network does to a connect to addrs[i]
    next_addr,     \* addrs.into_iter(): position of the next address
    timer,         \* tcp_connect: timer
    deadline,      \* tcp_connect: deadline
    tx_opt,        \* tcp_connect: tx_opt is Some
    rx_alive,      \* tcp_connect: rx has not been dropped
    chan,          \* the mpsc channel's buffer
    cancel_sent,   \* a () was broadcast on cancel
    cancel_alive,  \* the broadcast Sender has not been dropped
    result,        \* tcp_connect: result
    cpc,           \* position of the tcp_connect future
    task,          \* the spawned tasks, by position of their address
    stream,        \* the TcpStream of each address
    trace,         \* the hooks the recorder has received, in order
    latency,       \* how long the network takes to answer a connect to addrs[i]
    launched,      \* the instant the attempt on addrs[i] was spawned
    uri_port,      \* request.uri().port_u16(), NoPort for None
    dns_overrides, \* self.dns_overrides.get(host): <<>> for None, <<ips>> for Some(ips)
    dns_timeout,   \* ClientRef::dns_timeout
    lookup,        \* what resolver.lookup_ip(host) answers, and after how long
    lookup_at,     \* the instant lookup_ip was called
    dns_ret,       \* what _dns_resolve returned
    body,          \* how far the caller has read the body of the Response
    disable_auto_set_header,  \* ClientRef::disable_auto_set_header
    uri_host,      \* request.uri().host()
    version,       \* request.version()
    supplied,      \* the header map the caller built the request with
    headers,       \* request.headers(), as execute has left it
    alpn,          \* stream.get_ref().1.alpn_protocol(): <<>> for None
    framing,       \* the hyper handshake the exchange ran on
    sent,          \* the header map of the request given to send_request
    handles,       \* StatsRecorder values: the Arc each of them holds
    inner,         \* StatsRecorderInner behind each Arc
    guard,         \* the Mutex: the hook that holds its guard
    phase,         \* how far the execution using the recorder has come
    execs,         \* executions that have used the recorder
    fired,         \* when each hook was last invoked
    report,        \* the Stats the last finish() returned
    INIT,          \* the static Once of ensure_crypto_provider
    installs,      \* how often the closure given to INIT has run
    hs,            \* the TLS handshakes of the process, by position
    builder,       \* RequestBuilder: request
    bpc,           \* what has been done with the RequestBuilder
    calls,         \* setter calls made on the RequestBuilder
    returned,      \* what build() or send() returned
    copy,          \* what the last try_clone() returned
    first_error,   \* the first error the RequestBuilder got
    last,          \* the last call made on the RequestBuilder
    lookup_ip_strategy, \* ClientBuilder: lookup_ip_strategy
    local_addr,    \* ClientBuilder and ClientRef: local_addr
    prefer_ipv6,   \* ClientRef: prefer_ipv6, once the client is built
    sockets        \* the socket each attempt made, with its destination

vars == <<has_host, is_https, timeout, tcp_timeout, now, pc, exec_ret, addrs,
          conn, next_addr, timer, deadline, tx_opt, rx_alive, chan,
          cancel_sent, cancel_alive, result, cpc, task, stream, trace,
          latency, launched, uri_port, dns_overrides, dns_timeout, lookup,
          lookup_at, dns_ret, body, disable_auto_set_header, uri_host, version,
          supplied, headers, alpn, framing, sent, handles, inner, guard, phase,
          execs, fired, report, INIT, installs, hs, builder, bpc, calls,
          returned, copy, first_error, last, lookup_ip_strategy, local_addr,
          prefer_ipv6, sockets>>

racer_vars == <<addrs, conn, next_addr, timer, deadline, tx_opt, rx_alive, chan,
                cancel_sent, cancel_alive, result, cpc, task, stream>>

\* The request and the client's settings, as execute reads them.
exec_config == <<has_host, is_https, timeout, tcp_timeout>>

\* The network's connect latencies and the launch instants, which only the
\* timed reading of the racer (TimedSpec) looks at.
timed_vars == <<latency, launched>>

\* The inputs and the state of _dns_resolve, which only the detailed reading
\* of name resolution (DnsSpec) looks at.
dns_vars == <<uri_port, dns_overrides, dns_timeout, lookup, lookup_at, dns_ret>>

\* The caller's reading of the response, once execute has returned it.
body_vars == <<body>>

\* The request's headers and the framing, which only the detailed reading
\* of the exchange (ExchangeSpec) looks at.
exchange_vars == <<disable_auto_set_header, uri_host, version, supplied, headers,
                   alpn, framing, sent>>

\* The StatsRecorder and the hooks it is given (StatsSpec).
stats_vars == <<handles, inner, guard, phase, execs, fired, report>>

\* What only the specifications of the parts around execute look at.
\* The process-wide crypto provider and the handshakes that need it
\* (CryptoSpec).
once_vars == <<INIT, installs, hs>>

\* The RequestBuilder a verb helper returns (BuilderSpec).
builder_vars == <<builder, bpc, calls, returned, copy, first_error, last>>

\* The client's socket settings and the sockets made from them (SocketSpec).
socket_vars == <<lookup_ip_strategy, local_addr, prefer_ipv6, sockets>>

other_vars == <<stats_vars, once_vars, builder_vars, socket_vars>>

\* What the racer leaves alone under either reading of it.
aside_vars == <<dns_vars, body_vars, exchange_vars, other_vars>>

\* What no step of execute writes.
config_vars == <<exec_config, timed_vars, aside_vars>>

---------------------------------------------------------------------------
\* Bounds of the model.
MaxAddrs == 2
MaxLate == 1

\* Program constants, in seconds.
FALLBACK_INTERVAL == 3
FAR_INTERVAL == 946080000
CHANNEL_CAPACITY == 1

\* Values the configuration is drawn from.
TcpTimeouts == {1, 4, FAR_INTERVAL}
RequestTimeouts == {2, FAR_INTERVAL}
Behaviours == {"connects", "refused", "hangs"}

Positions == 1..MaxAddrs

---------------------------------------------------------------------------
\* crate::Error, the kinds this model meets, and their Display strings.
to_string(e) ==
    CASE e = "Unknown" -> "unknown error"
      [] e = "Resolve" -> "resolve error"
      [] e = "Io" -> "io error"
      [] e = "Timeout" -> "timeout error"
      [] e = "Rustls" -> "rustls error"
      [] e = "InvalidDnsName" -> "invalid dns name error"
      [] e = "Hyper" -> "hyper error"
      [] e = "HostRequired" -> "host required"
      [] e = "EmptyResolveResult" -> "empty resolve result"
      [] e = "AllTcpConnectFailed" -> "all tcp connect failed"
      [] e = "TcpDeadlineExceeded" -> "tcp deadline exceeded"
      [] OTHER -> "unknown error"

\* request.uri().port_u16() is None; an instant that never was.
NoPort == 0
Never == 0 - 1

\* Result<(Vec<SocketAddr>, bool)>.
DnsOk(a, hit) == [kind |-> "Ok", addrs |-> a, hit_cache |-> hit]
DnsErr(e) == [kind |-> e, addrs |-> <<>>, hit_cache |-> FALSE]
NoLookup == [after |-> 0, kind |-> "Resolve", ips |-> <<>>]

\* Result<TcpStream>: Ok carries the transport of one address.
Ok(i) == [kind |-> "Ok", stream |-> i]
Err(e) == [kind |-> e, stream |-> 0]

\* ret.as_ref().map_err(|e| e.to_string()), as the hooks receive it.
map_err(r) == IF r.kind = "Ok" THEN "Ok" ELSE to_string(r.kind)

Hook(name, dest, res) == <<name, dest, res>>

NoTask == [st |-> "none", ret |-> Err("Unknown")]

\* The cancel arm written `Ok(_) = cancel_rx.recv()`: only a message counts.
cancel_rx_message_only == cancel_sent

\* The cancel arm of _tcp_connect's select: recv() returns on a message
\* and on the Sender's drop alike, and `_` matches either.
cancel_rx_ready == cancel_sent \/ ~cancel_alive

\* The Senders counted without the clones the tasks own.
senders_left_but_tasks == tx_opt

\* Senders of the mpsc channel: tx_opt and the clone each running task owns.
senders_left ==
    tx_opt \/ \E i \in Positions : task[i].st \in {"connecting", "sending"}

\* A dropped outcome whose transport is kept alive somewhere.
drop_none(s, dropped) == s

\* Dropping a Result<TcpStream> closes the transport it carries.
drop_all(s, dropped) ==
    [i \in Positions |-> IF i \in dropped /\ s[i] = "open" THEN "closed" ELSE s[i]]

buffered == {chan[k].addr : k \in 1..Len(chan)}
buffered_ok == {chan[k].addr : k \in {j \in 1..Len(chan) : chan[j].ret.kind = "Ok"}}

---------------------------------------------------------------------------
\* execute has just been called.
ExecuteInit ==
    /\ has_host \in BOOLEAN
    /\ is_https \in BOOLEAN
    /\ timeout \in RequestTimeouts
    /\ tcp_timeout \in TcpTimeouts
    /\ now = 0
    /\ pc = "start"
    /\ exec_ret = "none"
    /\ addrs = 0
    /\ conn = [i \in Positions |-> "hangs"]
    /\ next_addr = 1
    /\ timer = 0
    /\ deadline = 0
    /\ tx_opt = FALSE
    /\ rx_alive = FALSE
    /\ chan = <<>>
    /\ cancel_sent = FALSE
    /\ cancel_alive = FALSE
    /\ result = Err("Unknown")
    /\ cpc = "idle"
    /\ task = [i \in Positions |-> NoTask]
    /\ stream = [i \in Positions |-> "none"]
    /\ trace = <<>>

\* The settings of name resolution when its outcome is all that matters.
DnsIdle ==
    /\ uri_port = NoPort
    /\ dns_overrides = <<>>
    /\ dns_timeout = FAR_INTERVAL
    /\ lookup = NoLookup
    /\ lookup_at = Never
    /\ dns_ret = DnsErr("none")

\* The request's headers and the framing when they do not matter.
ExchangeIdle ==
    /\ disable_auto_set_header = FALSE
    /\ uri_host = "a.example"
    /\ version = "HTTP/1.1"
    /\ supplied = <<>>
    /\ headers = <<>>
    /\ alpn = <<>>
    /\ framing = "none"
    /\ sent = <<>>

\* Option<T>: None and Some(x).
None == <<>>
Some(x) == <<x>>

\* StatRecord::default() and StatsRecorderInner::default().
StatRecord(s, d, r) == [start |-> s, done |-> d, result |-> r]
NoRecord == StatRecord(Never, Never, None)
NoInner == [dns_stat |-> NoRecord, dns_hit_cache |-> FALSE, tcp_stats |-> None,
            tls_stat |-> None, request_stat |-> None]
NoFired == [dns_start |-> Never, dns_done |-> Never, tls_start |-> Never,
            tls_done |-> Never, request_start |-> Never,
            tcp_start |-> <<>>, tcp_done |-> <<>>, result |-> <<>>]

\* A StatsRecorder nobody has used.
StatsIdle ==
    /\ handles = <<1>>
    /\ inner = <<NoInner>>
    /\ guard = None
    /\ phase = "idle"
    /\ execs = 0
    /\ fired = NoFired
    /\ report = None

MaxHandshakes == 3

\* No handshake has been started in the process.
OnceIdle ==
    /\ INIT = "incomplete"
    /\ installs = 0
    /\ hs = [t \in 1..MaxHandshakes |-> "idle"]

\* No RequestBuilder has been asked for.
BuilderIdle ==
    /\ builder = None
    /\ bpc = "new"
    /\ calls = 0
    /\ returned = None
    /\ copy = None
    /\ first_error = None
    /\ last = None

\* A ClientBuilder left at its defaults, and no socket made.
SocketIdle ==
    /\ lookup_ip_strategy = None
    /\ local_addr = None
    /\ prefer_ipv6 = None
    /\ sockets = [i \in Positions |-> None]

OtherIdle == StatsIdle /\ OnceIdle /\ BuilderIdle /\ SocketIdle

Init ==
    /\ ExecuteInit
    /\ latency = [i \in Positions |-> 0]
    /\ launched = [i \in Positions |-> 0]
    /\ DnsIdle
    /\ body = "unread"
    /\ ExchangeIdle
    /\ OtherIdle

---------------------------------------------------------------------------
\* execute with on_dns_start fired ahead of the host check.
execute_hook_first ==
    /\ pc = "start"
    /\ trace' = Append(trace, Hook("on_dns_start", 0, "-"))
    /\ IF has_host
       THEN /\ pc' = "dns"
            /\ UNCHANGED exec_ret
       ELSE /\ exec_ret' = "HostRequired"
            /\ pc' = "done"
    /\ UNCHANGED <<config_vars, now, racer_vars>>

\* execute, up to the first await: dns_resolve's host check and on_dns_start.
execute ==
    /\ pc = "start"
    /\ IF has_host
       THEN /\ trace' = Append(trace, Hook("on_dns_start", 0, "-"))
            /\ pc' = "dns"
            /\ UNCHANGED exec_ret
       ELSE /\ exec_ret' = "HostRequired"
            /\ pc' = "done"
            /\ UNCHANGED trace
    /\ UNCHANGED <<config_vars, now, racer_vars>>

\* _dns_resolve fails: on_dns_done gets the error string, execute returns it.
dns_resolve_err ==
    /\ pc = "dns"
    /\ \E e \in {"Resolve", "Timeout", "EmptyResolveResult"} :
         /\ trace' = Append(trace, Hook("on_dns_done", 0, to_string(e)))
         /\ exec_ret' = e
    /\ pc' = "done"
    /\ UNCHANGED <<config_vars, now, racer_vars>>

\* _dns_resolve succeeds with n addresses; tcp_connect runs up to its select.
dns_resolve_ok ==
    /\ pc = "dns"
    /\ \E n \in 1..MaxAddrs, c \in [Positions -> Behaviours] :
         /\ \A i \in Positions : i > n => c[i] = "hangs"
         /\ addrs' = n
         /\ conn' = c
    /\ trace' = Append(trace, Hook("on_dns_done", 0, "Ok"))
    /\ pc' = "tcp"
    /\ cpc' = "select"
    /\ tx_opt' = TRUE
    /\ rx_alive' = TRUE
    /\ cancel_alive' = TRUE
    /\ result' = Err("Unknown")
    /\ timer' = now
    /\ deadline' = now + tcp_timeout
    /\ UNCHANGED <<config_vars, now, exec_ret, next_addr, chan, cancel_sent,
                   task, stream>>

---------------------------------------------------------------------------
\* The deadline arm reporting the generic timeout error.
tcp_connect_deadline_timeout ==
    /\ pc = "tcp" /\ cpc = "select"
    /\ now >= deadline
    /\ result' = Err("Timeout")
    /\ cpc' = "exit"
    /\ UNCHANGED <<config_vars, now, pc, exec_ret, addrs, conn, next_addr, timer,
                   deadline, tx_opt, rx_alive, chan, cancel_sent, cancel_alive,
                   task, stream, trace>>

\* tcp_connect's select, arm 1: sleep_until(deadline).
tcp_connect_deadline ==
    /\ pc = "tcp" /\ cpc = "select"
    /\ now >= deadline
    /\ result' = Err("TcpDeadlineExceeded")
    /\ cpc' = "exit"
    /\ UNCHANGED <<config_vars, now, pc, exec_ret, addrs, conn, next_addr, timer,
                   deadline, tx_opt, rx_alive, chan, cancel_sent, cancel_alive,
                   task, stream, trace>>

\* addrs.next(): the iterator moves to the following position.
iter_stuck(n) == n
iter_next(n) == n + 1

\* The timer parked after every launch: no staggered fallback.
rearm_far(t) == t + FAR_INTERVAL

\* The timer left where it was after a launch.
rearm_at_once(t) == t

\* `timer += FALLBACK_INTERVAL;`
rearm(t) == t + FALLBACK_INTERVAL

\* arm 2, addrs.next() is Some: on_tcp_start, spawn the attempt, re-arm.
launch ==
    /\ pc = "tcp" /\ cpc = "select"
    /\ now >= timer
    /\ next_addr <= addrs
    /\ trace' = Append(trace, Hook("on_tcp_start", next_addr, "-"))
    /\ IF tx_opt
       THEN task' = [task EXCEPT ![next_addr] = [st |-> "connecting", ret |-> Err("Unknown")]]
       ELSE UNCHANGED task
    /\ timer' = rearm(timer)
    /\ next_addr' = iter_next(next_addr)
    /\ UNCHANGED <<exec_config, aside_vars, now, pc, exec_ret, addrs, conn, deadline,
                   tx_opt, rx_alive, chan, cancel_sent, cancel_alive, result, cpc,
                   stream>>

tcp_connect_launch ==
    /\ launch
    /\ UNCHANGED timed_vars

\* The None arm without tx_opt.take().
tcp_connect_exhausted_keeps_tx ==
    /\ pc = "tcp" /\ cpc = "select"
    /\ now >= timer
    /\ next_addr > addrs
    /\ timer' = now + FAR_INTERVAL
    /\ UNCHANGED <<config_vars, now, pc, exec_ret, addrs, conn, next_addr, deadline,
                   tx_opt, rx_alive, chan, cancel_sent, cancel_alive, result, cpc,
                   task, stream, trace>>

\* arm 2, addrs.next() is None: drop the sender, park the timer.
tcp_connect_exhausted ==
    /\ pc = "tcp" /\ cpc = "select"
    /\ now >= timer
    /\ next_addr > addrs
    /\ tx_opt' = FALSE
    /\ timer' = now + FAR_INTERVAL
    /\ UNCHANGED <<config_vars, now, pc, exec_ret, addrs, conn, next_addr, deadline,
                   rx_alive, chan, cancel_sent, cancel_alive, result, cpc, task,
                   stream, trace>>

\* `if let Ok(ret) = ret { result = Ok(ret); break 'outer; }`
accept_kept(ret, res) == res
accept(ret, res) == IF ret.kind = "Ok" THEN ret ELSE res
breaks_never(ret) == FALSE
breaks_always(ret) == TRUE
breaks(ret) == ret.kind = "Ok"

\* arm 3, recv() is Some((addr, ret)): on_tcp_done, accept a transport.
tcp_connect_recv ==
    /\ pc = "tcp" /\ cpc = "select"
    /\ chan # <<>>
    /\ LET m == Head(chan) IN
         /\ trace' = Append(trace, Hook("on_tcp_done", m.addr, map_err(m.ret)))
         /\ result' = accept(m.ret, result)
         /\ cpc' = IF breaks(m.ret) THEN "exit" ELSE "select"
    /\ chan' = Tail(chan)
    /\ UNCHANGED <<config_vars, now, pc, exec_ret, addrs, conn, next_addr, timer,
                   deadline, tx_opt, rx_alive, cancel_sent, cancel_alive, task,
                   stream>>

\* arm 3, recv() is None: the buffer is empty and every Sender is gone.
tcp_connect_closed ==
    /\ pc = "tcp" /\ cpc = "select"
    /\ chan = <<>>
    /\ ~senders_left
    /\ result' = Err("AllTcpConnectFailed")
    /\ cpc' = "exit"
    /\ UNCHANGED <<config_vars, now, pc, exec_ret, addrs, conn, next_addr, timer,
                   deadline, tx_opt, rx_alive, chan, cancel_sent, cancel_alive,
                   task, stream, trace>>

\* Leaving the loop without the broadcast.
tcp_connect_no_cancel ==
    /\ pc = "tcp" /\ cpc = "exit"
    /\ cpc' = "cancelled"
    /\ UNCHANGED <<config_vars, now, pc, exec_ret, addrs, conn, next_addr, timer,
                   deadline, tx_opt, rx_alive, chan, cancel_sent, cancel_alive,
                   result, task, stream, trace>>

\* `_ = cancel.send(());` after the loop.
tcp_connect_cancel ==
    /\ pc = "tcp" /\ cpc = "exit"
    /\ cancel_sent' = TRUE
    /\ cpc' = "cancelled"
    /\ UNCHANGED <<config_vars, now, pc, exec_ret, addrs, conn, next_addr, timer,
                   deadline, tx_opt, rx_alive, chan, cancel_alive, result, task,
                   stream, trace>>

\* The handshake run whatever the scheme.
after_tcp_always_tls(https) == "tls"

\* What execute does with the transport before its next await: the scheme
\* decides between tls_handshake (on_tls_start first) and the HTTP/1 exchange.
after_tcp(https) == IF https THEN "tls" ELSE "http"

\* tcp_connect returns result: its locals rx, tx_opt and cancel are dropped,
\* and execute goes on to its next await or returns the error.
tcp_connect_return ==
    /\ pc = "tcp" /\ cpc = "cancelled"
    /\ cpc' = "returned"
    /\ rx_alive' = FALSE
    /\ tx_opt' = FALSE
    /\ cancel_alive' = FALSE
    /\ chan' = <<>>
    /\ stream' = drop_all(stream, buffered_ok)
    /\ IF result.kind = "Ok"
       THEN /\ pc' = after_tcp(is_https)
            /\ trace' = IF after_tcp(is_https) = "tls"
                        THEN Append(trace, Hook("on_tls_start", result.stream, "-"))
                        ELSE trace
            /\ UNCHANGED exec_ret
       ELSE /\ pc' = "done"
            /\ exec_ret' = result.kind
            /\ UNCHANGED trace
    /\ UNCHANGED <<config_vars, now, addrs, conn, next_addr, timer, deadline,
                   cancel_sent, result, task>>

---------------------------------------------------------------------------
\* The task spawned for addrs[i]: _tcp_connect, then tx.send((addr, ret)).

\* socket.connect(dest) completes with a stream.
task_connected(i) ==
    /\ task[i].st = "connecting"
    /\ conn[i] = "connects"
    /\ task' = [task EXCEPT ![i] = [st |-> "sending", ret |-> Ok(i)]]
    /\ stream' = [stream EXCEPT ![i] = "open"]
    /\ UNCHANGED <<config_vars, now, pc, exec_ret, addrs, conn, next_addr, timer,
                   deadline, tx_opt, rx_alive, chan, cancel_sent, cancel_alive,
                   result, cpc, trace>>

\* TcpSocket::new_v4/new_v6, bind or connect fails with an io error.
task_io_error(i) ==
    /\ task[i].st = "connecting"
    /\ conn[i] = "refused"
    /\ task' = [task EXCEPT ![i] = [st |-> "sending", ret |-> Err("Io")]]
    /\ UNCHANGED <<config_vars, now, pc, exec_ret, addrs, conn, next_addr, timer,
                   deadline, tx_opt, rx_alive, chan, cancel_sent, cancel_alive,
                   result, cpc, stream, trace>>

\* The cancel arm handing on what connect would have failed with.
task_cancelled_io(i) ==
    /\ task[i].st = "connecting"
    /\ cancel_rx_ready
    /\ task' = [task EXCEPT ![i] = [st |-> "sending", ret |-> Err("Io")]]
    /\ UNCHANGED <<config_vars, now, pc, exec_ret, addrs, conn, next_addr, timer,
                   deadline, tx_opt, rx_alive, chan, cancel_sent, cancel_alive,
                   result, cpc, stream, trace>>

\* `_ = cancel_rx.recv() => Err(crate::Error::TcpDeadlineExceeded)`
task_cancelled(i) ==
    /\ task[i].st = "connecting"
    /\ cancel_rx_ready
    /\ task' = [task EXCEPT ![i] = [st |-> "sending", ret |-> Err("TcpDeadlineExceeded")]]
    /\ UNCHANGED <<config_vars, now, pc, exec_ret, addrs, conn, next_addr, timer,
                   deadline, tx_opt, rx_alive, chan, cancel_sent, cancel_alive,
                   result, cpc, stream, trace>>

\* tx.send gets a permit: the outcome is buffered and the task ends.
task_send(i) ==
    /\ task[i].st = "sending"
    /\ rx_alive
    /\ Len(chan) < CHANNEL_CAPACITY
    /\ chan' = Append(chan, [addr |-> i, ret |-> task[i].ret])
    /\ task' = [task EXCEPT ![i].st = "finished"]
    /\ UNCHANGED <<config_vars, now, pc, exec_ret, addrs, conn, next_addr, timer,
                   deadline, tx_opt, rx_alive, cancel_sent, cancel_alive, result,
                   cpc, stream, trace>>

\* tx.send fails because rx is gone: the outcome is dropped with the error.
task_send_closed(i) ==
    /\ task[i].st = "sending"
    /\ ~rx_alive
    /\ task' = [task EXCEPT ![i].st = "finished"]
    /\ stream' = drop_all(stream, {i})
    /\ UNCHANGED <<config_vars, now, pc, exec_ret, addrs, conn, next_addr, timer,
                   deadline, tx_opt, rx_alive, chan, cancel_sent, cancel_alive,
                   result, cpc, trace>>

---------------------------------------------------------------------------
\* _tls_handshake returns: on_tls_done, then the exchange or the error.
tls_handshake_ok ==
    /\ pc = "tls"
    /\ trace' = Append(trace, Hook("on_tls_done", result.stream, "Ok"))
    /\ pc' = "http"
    /\ UNCHANGED <<config_vars, now, exec_ret, racer_vars>>

\* _tls_handshake fails and the recorder is not told.
tls_handshake_err_silent ==
    /\ pc = "tls"
    /\ \E e \in {"Rustls", "InvalidDnsName", "Timeout", "Io"} : exec_ret' = e
    /\ pc' = "done"
    /\ stream' = drop_all(stream, {result.stream})
    /\ UNCHANGED <<config_vars, now, addrs, conn, next_addr, timer, deadline,
                   tx_opt, rx_alive, chan, cancel_sent, cancel_alive, result, cpc,
                   task, trace>>

\* _tls_handshake fails: root_store.add (Rustls), the server name
\* (InvalidDnsName), tls_timeout (Timeout) or connect itself (Io, which is
\* how a rejected certificate comes back).
tls_handshake_err ==
    /\ pc = "tls"
    /\ \E e \in {"Rustls", "InvalidDnsName", "Timeout", "Io"} :
         /\ trace' = Append(trace, Hook("on_tls_done", result.stream, to_string(e)))
         /\ exec_ret' = e
    /\ pc' = "done"
    /\ stream' = drop_all(stream, {result.stream})
    /\ UNCHANGED <<config_vars, now, addrs, conn, next_addr, timer, deadline,
                   tx_opt, rx_alive, chan, cancel_sent, cancel_alive, result, cpc,
                   task>>

\* tcp_send_h1_request / tls_send_request return.
send_request_ok ==
    /\ pc = "http"
    /\ exec_ret' = "Response"
    /\ pc' = "done"
    /\ UNCHANGED <<config_vars, now, racer_vars, trace>>

send_request_err ==
    /\ pc = "http"
    /\ exec_ret' = "Hyper"
    /\ pc' = "done"
    /\ stream' = drop_all(stream, {result.stream})
    /\ UNCHANGED <<config_vars, now, addrs, conn, next_addr, timer, deadline,
                   tx_opt, rx_alive, chan, cancel_sent, cancel_alive, result, cpc,
                   task, trace>>

\* A deadline that covers execute up to the connection only.
execute_timeout_connect_only ==
    /\ pc \in {"dns", "tcp"}
    /\ pc = "tcp" => cpc = "select"
    /\ now >= timeout
    /\ exec_ret' = "Timeout"
    /\ pc' = "done"
    /\ IF pc = "tcp"
       THEN /\ cpc' = "dropped"
            /\ rx_alive' = FALSE
            /\ tx_opt' = FALSE
            /\ cancel_alive' = FALSE
            /\ chan' = <<>>
            /\ stream' = drop_all(stream, buffered_ok)
       ELSE /\ UNCHANGED <<cpc, rx_alive, tx_opt, cancel_alive, chan, stream>>
    /\ UNCHANGED <<config_vars, now, addrs, conn, next_addr, timer, deadline,
                   cancel_sent, result, task, trace>>

\* tokio::time::timeout(timeout, ..) elapses at an await of the inner
\* future and drops it, with whatever it owns.
execute_timeout ==
    /\ pc \in {"dns", "tcp", "tls", "http"}
    /\ pc = "tcp" => cpc = "select"
    /\ now >= timeout
    /\ exec_ret' = "Timeout"
    /\ pc' = "done"
    /\ IF pc = "tcp"
       THEN /\ cpc' = "dropped"
            /\ rx_alive' = FALSE
            /\ tx_opt' = FALSE
            /\ cancel_alive' = FALSE
            /\ chan' = <<>>
            /\ stream' = drop_all(stream, buffered_ok)
       ELSE /\ stream' = drop_all(stream, {result.stream})
            /\ UNCHANGED <<cpc, rx_alive, tx_opt, cancel_alive, chan>>
    /\ UNCHANGED <<config_vars, now, addrs, conn, next_addr, timer, deadline,
                   cancel_sent, result, task, trace>>

---------------------------------------------------------------------------
\* The sleeps some future is still waiting on.
live_timers ==
    (IF pc \in {"dns", "tcp", "tls", "http"} THEN {timeout} ELSE {})
    \cup (IF pc = "tcp" /\ cpc = "select" THEN {timer, deadline} ELSE {})

\* A second passes.  Time matters only while a sleep is pending, and the
\* future waiting on a sleep is polled at most MaxLate after its instant.
Tick ==
    /\ \E t \in live_timers : t < FAR_INTERVAL
    /\ \A t \in live_timers : now < t + MaxLate
    /\ now' = now + 1
    /\ UNCHANGED <<config_vars, pc, exec_ret, racer_vars, trace>>

Next ==
    \/ execute
    \/ dns_resolve_err
    \/ dns_resolve_ok
    \/ tcp_connect_deadline
    \/ tcp_connect_launch
    \/ tcp_connect_exhausted
    \/ tcp_connect_recv
    \/ tcp_connect_closed
    \/ tcp_connect_cancel
    \/ tcp_connect_return
    \/ \E i \in Positions : task_connected(i)
    \/ \E i \in Positions : task_io_error(i)
    \/ \E i \in Positions : task_cancelled(i)
    \/ \E i \in Positions : task_send(i)
    \/ \E i \in Positions : task_send_closed(i)
    \/ tls_handshake_ok
    \/ tls_handshake_err
    \/ send_request_ok
    \/ send_request_err
    \/ execute_timeout
    \/ Tick

Spec == Init /\ [][Next]_vars


\* The scheduling the runtime guarantees: time passes, and a future that
\* stays ready is polled (select! picks among ready arms at random).
Coordinator ==
    \/ tcp_connect_deadline
    \/ tcp_connect_launch
    \/ tcp_connect_exhausted
    \/ tcp_connect_recv
    \/ tcp_connect_closed
    \/ tcp_connect_cancel
    \/ tcp_connect_return

TaskStep(i) ==
    \/ task_connected(i)
    \/ task_io_error(i)
    \/ task_cancelled(i)
    \/ task_send(i)
    \/ task_send_closed(i)

Fairness ==
    /\ WF_vars(Tick)
    /\ WF_vars(execute_timeout)
    /\ WF_vars(Coordinator)
    /\ \A i \in Positions : WF_vars(TaskStep(i))

FairSpec == Init /\ [][Next]_vars /\ Fairness

---------------------------------------------------------------------------
\* Reading the trace.
Events(name) == {k \in 1..Len(trace) : trace[k][1] = name}
EventsAt(name, d) == {k \in Events(name) : trace[k][2] = d}
TcpOkDone == {k \in Events("on_tcp_done") : trace[k][3] = "Ok"}
TcpErrDone == {k \in Events("on_tcp_done") : trace[k][3] # "Ok"}
Started == {trace[k][2] : k \in Events("on_tcp_start")}

Rank(h) ==
    CASE h = "on_dns_start" -> 1
      [] h = "on_dns_done" -> 2
      [] h = "on_tcp_start" -> 3
      [] h = "on_tcp_done" -> 3
      [] h = "on_tls_start" -> 4
      [] h = "on_tls_done" -> 5
      [] h = "on_request_start" -> 6

AllTasksOver == \A i \in Positions : task[i].st \in {"none", "finished"}
Running == {i \in Positions : task[i].st \in {"connecting", "sending"}}
Open == {i \in Positions : stream[i] = "open"}

---------------------------------------------------------------------------
\* C1: the hooks of one execution come in the order dns_start, dns_done,
\* tcp start/done pairs (a done after the start of its destination), then for
\* HTTPS only tls_start, tls_done, then request_start; no TCP hook before a
\* successful dns_done and no TLS hook before the on_tcp_done that carried
\* the chosen transport.
C1_HookOrder ==
    /\ \A j, k \in 1..Len(trace) : j < k => Rank(trace[j][1]) <= Rank(trace[k][1])
    /\ \A h \in {"on_dns_start", "on_dns_done", "on_tls_start", "on_tls_done",
                 "on_request_start"} : Cardinality(Events(h)) <= 1
    /\ trace # <<>> => trace[1][1] = "on_dns_start"
    /\ Len(trace) >= 2 => trace[2][1] = "on_dns_done"
    /\ Len(trace) >= 3 => trace[2][3] = "Ok" /\ trace[3][1] = "on_tcp_start"
    /\ \A k \in Events("on_tcp_done") :
         \E j \in EventsAt("on_tcp_start", trace[k][2]) : j < k
    /\ \A k \in Events("on_tls_start") :
         /\ is_https
         /\ \E j \in TcpOkDone : j < k /\ trace[j][2] = trace[k][2]
    /\ \A k \in Events("on_tls_done") : \E j \in Events("on_tls_start") : j < k
    /\ \A k \in Events("on_request_start") :
         /\ TcpOkDone # {}
         /\ is_https => Events("on_tls_done") # {}

C1_Witness ==
    /\ pc = "http" /\ is_https
    /\ Cardinality(Events("on_tcp_start")) = 2
    /\ Cardinality(Events("on_tcp_done")) = 2
    /\ Events("on_tls_done") # {}

\* C2: when tcp_connect has returned and all its tasks are over, every
\* destination that got on_tcp_start has got exactly one on_tcp_done.
C2_EveryStartPaired ==
    (cpc = "returned" /\ AllTasksOver) =>
        \A d \in Started : Cardinality(EventsAt("on_tcp_done", d)) = 1

\* C3: a returned transport belongs to an attempt that connected, it is the
\* first success the coordinator received, and no attempt was launched
\* after it was accepted.
C3_FirstSuccessWins ==
    result.kind = "Ok" =>
        LET w == result.stream IN
        /\ w \in 1..addrs
        /\ conn[w] = "connects"
        /\ task[w].ret = Ok(w)
        /\ TcpOkDone # {}
        /\ \A k \in TcpOkDone :
             /\ trace[k][2] = w
             /\ \A j \in Events("on_tcp_start") : j < k
             /\ \A j \in Events("on_tcp_done") : j <= k
        /\ cpc # "select"
        /\ next_addr - 1 = Cardinality(Events("on_tcp_start"))

C3_Witness ==
    /\ result.kind = "Ok"
    /\ cpc = "returned"
    /\ \E i \in Positions : i # result.stream /\ task[i].ret.kind = "Ok"

\* C4: once tcp_connect has returned a transport and every task is over,
\* the only transport still open is the returned one (for as long as
\* execute holds it); every other one that connected has been closed.
C4_OneSurvivor ==
    (cpc = "returned" /\ result.kind = "Ok" /\ AllTasksOver) =>
        /\ Open \subseteq {result.stream}
        /\ (pc \in {"tls", "http"} \/ exec_ret = "Response") => Open = {result.stream}

C4_Witness ==
    /\ cpc = "returned" /\ result.kind = "Ok" /\ AllTasksOver
    /\ pc \in {"tls", "http"}
    /\ \E i \in Positions : stream[i] = "closed"

\* C9: tcp_connect returns only Ok, AllTcpConnectFailed or its own
\* TcpDeadlineExceeded (the deadline has passed); never Unknown and never
\* the error of an attempt, which on_tcp_done alone has been given.
C9_ReturnKinds ==
    cpc = "returned" =>
        /\ result.kind \in {"Ok", "AllTcpConnectFailed", "TcpDeadlineExceeded"}
        /\ result.kind = "TcpDeadlineExceeded" => now >= deadline
        /\ pc = "done" =>
             /\ exec_ret \in {"AllTcpConnectFailed", "TcpDeadlineExceeded", "Response",
                              "Hyper", "Rustls", "InvalidDnsName", "Timeout", "Io"}
             /\ exec_ret = "Io" => Events("on_tls_done") # {}
        /\ \A k \in TcpErrDone :
             trace[k][3] \in {to_string("Io"), to_string("TcpDeadlineExceeded")}

C9_Witness ==
    /\ cpc = "returned"
    /\ result.kind = "AllTcpConnectFailed"
    /\ TcpErrDone # {}

\* C10: at most addrs attempts are launched, each position at most once,
\* and never more than addrs attempts are alive.
C10_BoundedAttempts ==
    /\ Cardinality(Events("on_tcp_start")) <= addrs
    /\ next_addr - 1 = Cardinality(Events("on_tcp_start"))
    /\ \A d \in Positions : Cardinality(EventsAt("on_tcp_start", d)) <= 1
    /\ Started = 1..(next_addr - 1)
    /\ Running \subseteq Started
    /\ Cardinality(Running) <= addrs

C10_Witness ==
    /\ addrs = 2
    /\ Cardinality(Running) = 2
    /\ tx_opt = FALSE


\* C5: tcp_connect never returns without having broadcast cancel, and the
\* tasks running when it returns all come to an end.
C5_ExitUnwindsTasks ==
    /\ [](cpc = "returned" => cancel_sent)
    /\ (cpc = "returned") ~> AllTasksOver

C5_Witness ==
    /\ cpc = "returned"
    /\ cancel_sent
    /\ \E i, j \in Positions :
         /\ task[i].st = "connecting" /\ conn[i] = "hangs"
         /\ task[j].st = "sending"

\* C6: when the request's deadline drops the coordinator, no cancel has
\* been broadcast, the broadcast sender and the channel receiver are gone,
\* and the spawned tasks still all come to an end.
C6_DroppedCoordinator ==
    /\ [](cpc = "dropped" => ~cancel_sent /\ ~cancel_alive /\ ~rx_alive /\ exec_ret = "Timeout")
    /\ (cpc = "dropped") ~> AllTasksOver

C6_Witness ==
    /\ cpc = "dropped"
    /\ ~cancel_sent
    /\ \E i, j \in Positions :
         /\ task[i].st = "connecting" /\ conn[i] = "hangs"
         /\ task[j].st = "sending"

AllRefused == \A i \in 1..addrs : conn[i] = "refused"
Ample == tcp_timeout = FAR_INTERVAL /\ timeout = FAR_INTERVAL

\* C7: with ample deadlines and every address refusing, tcp_connect ends
\* in AllTcpConnectFailed after exactly addrs on_tcp_done hooks, all errors;
\* that result is only ever set with the sender dropped and every launched
\* task over and reported.
C7_AllFail ==
    /\ (pc = "tcp" /\ Ample /\ AllRefused) ~>
          (/\ cpc = "returned"
           /\ exec_ret = "AllTcpConnectFailed"
           /\ Cardinality(TcpErrDone) = addrs
           /\ TcpOkDone = {})
    /\ [](result.kind = "AllTcpConnectFailed" =>
            /\ ~tx_opt /\ AllTasksOver /\ chan = <<>>
            /\ next_addr = addrs + 1
            /\ Cardinality(TcpErrDone) = addrs
            /\ TcpOkDone = {})

C7_Witness ==
    /\ Ample /\ AllRefused /\ addrs = 2
    /\ cpc = "returned"
    /\ exec_ret = "AllTcpConnectFailed"
    /\ Cardinality(TcpErrDone) = 2


\* C8 as stated: a coordinator that leaves its loop after the TCP deadline
\* has passed leaves it with TcpDeadlineExceeded.
C8_DeadlineAlwaysWins ==
    [][(pc = "tcp" /\ cpc = "select" /\ now > deadline /\ cpc' = "exit") =>
          result'.kind = "TcpDeadlineExceeded"]_vars

\* C8, amended: once the TCP deadline has passed the coordinator leaves its
\* loop (or is dropped by the request's deadline), with TcpDeadlineExceeded
\* unless its select took an outcome arm that was ready as well (a success
\* waiting in the channel, or the closed channel); and whenever tcp_connect
\* returns TcpDeadlineExceeded, no success was accepted, cancel was
\* broadcast and execute returns TcpDeadlineExceeded.
C8_DeadlineArm ==
    /\ [][(pc = "tcp" /\ cpc = "select" /\ now >= deadline /\ cpc' = "exit") =>
            \/ result'.kind = "TcpDeadlineExceeded"
            \/ chan # <<>> /\ Head(chan).ret.kind = "Ok" /\ result' = Head(chan).ret
            \/ chan = <<>> /\ ~senders_left /\ result'.kind = "AllTcpConnectFailed"]_vars
    /\ [](cpc = "returned" /\ result.kind = "TcpDeadlineExceeded" =>
            /\ cancel_sent
            /\ TcpOkDone = {}
            /\ pc = "done" /\ exec_ret = "TcpDeadlineExceeded")
    /\ (pc = "tcp" /\ cpc = "select" /\ now >= deadline) ~> (cpc # "select")

C8_Witness ==
    /\ cpc = "returned"
    /\ result.kind = "TcpDeadlineExceeded"
    /\ exec_ret = "TcpDeadlineExceeded"
    /\ Running # {}

---------------------------------------------------------------------------
\* The racer in time.  A connect to addrs[i] is answered latency[i] after
\* the attempt was spawned, a future that is ready is polled at once, and
\* the clock moves only when nothing is ready.

\* Values the connect latencies are drawn from, and how long a lookup takes
\* at most.
Latencies == {0, 1, 4}
MaxLookup == 1

NotLaunched == Never

TimedInit ==
    /\ ExecuteInit
    /\ has_host
    /\ latency \in [Positions -> Latencies]
    /\ launched = [i \in Positions |-> NotLaunched]
    /\ DnsIdle
    /\ body = "unread"
    /\ ExchangeIdle
    /\ OtherIdle

\* arm 2 of the select, with the instant of tokio::spawn noted.
timed_launch ==
    /\ launch
    /\ launched' = [launched EXCEPT ![next_addr] = now]
    /\ UNCHANGED latency

\* socket.connect(dest) is answered latency[i] after the spawn.
answered(i) == now >= launched[i] + latency[i]

timed_connected(i) == answered(i) /\ task_connected(i)
timed_io_error(i) == answered(i) /\ task_io_error(i)

\* Everything that is ready to be polled (a lookup is not: it takes time).
TimedReady ==
    \/ execute
    \/ tcp_connect_deadline
    \/ timed_launch
    \/ tcp_connect_exhausted
    \/ tcp_connect_recv
    \/ tcp_connect_closed
    \/ tcp_connect_cancel
    \/ tcp_connect_return
    \/ \E i \in Positions : timed_connected(i)
    \/ \E i \in Positions : timed_io_error(i)
    \/ \E i \in Positions : task_cancelled(i)
    \/ \E i \in Positions : task_send(i)
    \/ \E i \in Positions : task_send_closed(i)
    \/ tls_handshake_ok
    \/ tls_handshake_err
    \/ send_request_ok
    \/ send_request_err
    \/ execute_timeout

\* A second passes: nothing is ready, and a lookup, a sleep or a connect
\* is still pending.
TimedTick ==
    /\ ~ENABLED TimedReady
    /\ \/ pc = "dns" /\ now < MaxLookup
       \/ \E t \in live_timers : now < t /\ t < FAR_INTERVAL
       \/ \E i \in Positions : task[i].st = "connecting" /\ conn[i] # "hangs"
    /\ now' = now + 1
    /\ UNCHANGED <<config_vars, pc, exec_ret, racer_vars, trace>>

TimedNext ==
    \/ execute
    \/ dns_resolve_err
    \/ dns_resolve_ok
    \/ tcp_connect_deadline
    \/ timed_launch
    \/ tcp_connect_exhausted
    \/ tcp_connect_recv
    \/ tcp_connect_closed
    \/ tcp_connect_cancel
    \/ tcp_connect_return
    \/ \E i \in Positions : timed_connected(i)
    \/ \E i \in Positions : timed_io_error(i)
    \/ \E i \in Positions : task_cancelled(i)
    \/ \E i \in Positions : task_send(i)
    \/ \E i \in Positions : task_send_closed(i)
    \/ tls_handshake_ok
    \/ tls_handshake_err
    \/ send_request_ok
    \/ send_request_err
    \/ execute_timeout
    \/ TimedTick

TimedSpec == TimedInit /\ [][TimedNext]_vars

\* The start of racing: tcp_connect sets deadline = Instant::now() + tcp_timeout.
RaceStart == deadline - tcp_timeout
Connecting == {i \in 1..addrs : conn[i] = "connects"}
Least(S) == CHOOSE x \in S : \A y \in S : x <= y

---------------------------------------------------------------------------
\* C12: an execution that got its response over the HTTP exchange has
\* called on_request_start exactly once, after the on_tcp_done of the chosen
\* transport (and after on_tls_done for HTTPS).
C12_RequestStartOnce ==
    exec_ret = "Response" =>
        /\ Cardinality(Events("on_request_start")) = 1
        /\ \A k \in Events("on_request_start") :
             /\ \E j \in TcpOkDone : j < k /\ trace[j][2] = result.stream
             /\ is_https => \E j \in Events("on_tls_done") : j < k

---------------------------------------------------------------------------
\* Name resolution in detail: dns_resolve with its two hooks around
\* _dns_resolve, under execute's deadline.  A future that is ready is polled
\* at once, and a timeout polls the future it wraps before its own sleep.

\* Values the inputs of _dns_resolve are drawn from.
Ips == {1, 2}
Ports == {NoPort, 8080}
DnsTimeouts == {0, 2, FAR_INTERVAL}
LookupLatencies == {0, 1, 3}
IpLists == UNION {[1..n -> Ips] : n \in 0..MaxAddrs}

DnsInit ==
    /\ ExecuteInit
    /\ tcp_timeout = FAR_INTERVAL
    /\ latency = [i \in Positions |-> 0]
    /\ launched = [i \in Positions |-> 0]
    /\ uri_port \in Ports
    /\ dns_overrides \in {<<>>} \cup {<<ips>> : ips \in IpLists}
    /\ dns_timeout \in DnsTimeouts
    /\ lookup \in [after : LookupLatencies, kind : {"Ok"}, ips : IpLists]
                  \cup [after : LookupLatencies, kind : {"Resolve"}, ips : {<<>>}]
    /\ lookup_at = Never
    /\ dns_ret = DnsErr("none")
    /\ body = "unread"
    /\ ExchangeIdle
    /\ OtherIdle

\* Request::port
port(https, p) == IF p # NoPort THEN p ELSE IF https THEN 443 ELSE 80

SocketAddr(ip, p) == <<ip, p>>

\* ips.iter().map(|ip| SocketAddr::new(*ip, port)).collect()
with_port(ips, p) == [k \in 1..Len(ips) |-> SocketAddr(ips[k], p)]

\* The override map never consulted.
override_skipped(ov) == FALSE

\* An entry taken as the answer whatever it holds.
override_present(ov) == ov # <<>>

\* `if let Some(ips) = self.dns_overrides.get(host) { if !ips.is_empty() {`
override_hit(ov) == ov # <<>> /\ ov[1] # <<>>

\* The lookup's answer returned without the emptiness check.
lookup_result_unchecked(l, p) ==
    IF l.kind # "Ok" THEN DnsErr(l.kind) ELSE DnsOk(with_port(l.ips, p), FALSE)

\* _dns_resolve after the lookup has answered in time: `??`, the mapping to
\* socket addresses, the emptiness check.
lookup_result(l, p) ==
    IF l.kind # "Ok" THEN DnsErr(l.kind)
    ELSE IF with_port(l.ips, p) = <<>> THEN DnsErr("EmptyResolveResult")
    ELSE DnsOk(with_port(l.ips, p), FALSE)

\* The hook given the addresses alone.
dns_hook_arg_addrs_only(r) == IF r.kind = "Ok" THEN <<r.addrs, FALSE>> ELSE <<>>

\* ret.as_ref().map(|(ips, hit_cache)| (ips.as_slice(), *hit_cache))
dns_hook_arg(r) == IF r.kind = "Ok" THEN <<r.addrs, r.hit_cache>> ELSE <<>>

\* dns_resolve once _dns_resolve has returned r: on_dns_done, then `?` in
\* execute.
dns_return(r, tr) ==
    /\ dns_ret' = r
    /\ trace' = Append(tr, Hook("on_dns_done", dns_hook_arg(r), map_err(r)))
    /\ IF r.kind = "Ok"
       THEN pc' = "tcp" /\ addrs' = Len(r.addrs) /\ UNCHANGED exec_ret
       ELSE pc' = "done" /\ exec_ret' = r.kind /\ UNCHANGED addrs

dns_unchanged == <<exec_config, timed_vars, body_vars, exchange_vars, other_vars,
                   uri_port, dns_overrides, dns_timeout,
                   lookup, now, conn, next_addr, timer, deadline, tx_opt, rx_alive,
                   chan, cancel_sent, cancel_alive, result, cpc, task, stream>>

\* dns_resolve up to its first await: the host check, on_dns_start, and
\* _dns_resolve up to the override's answer or the call of lookup_ip.
dns_resolve ==
    /\ pc = "start"
    /\ IF ~has_host
       THEN /\ exec_ret' = "HostRequired"
            /\ pc' = "done"
            /\ UNCHANGED <<trace, addrs, dns_ret, lookup_at>>
       ELSE IF override_hit(dns_overrides)
       THEN /\ dns_return(DnsOk(with_port(dns_overrides[1], port(is_https, uri_port)), TRUE),
                          Append(trace, Hook("on_dns_start", 0, "-")))
            /\ UNCHANGED lookup_at
       ELSE /\ trace' = Append(trace, Hook("on_dns_start", 0, "-"))
            /\ lookup_at' = now
            /\ pc' = "dns"
            /\ UNCHANGED <<exec_ret, addrs, dns_ret>>
    /\ UNCHANGED dns_unchanged

lookup_answered == now >= lookup_at + lookup.after
lookup_elapsed == now >= lookup_at + dns_timeout

\* tokio::time::timeout(self.dns_timeout, lookup_ip(host)): the lookup has
\* answered.
dns_lookup_done ==
    /\ pc = "dns"
    /\ lookup_answered
    /\ dns_return(lookup_result(lookup, port(is_https, uri_port)), trace)
    /\ UNCHANGED <<dns_unchanged, lookup_at>>

\* ... the lookup has not answered and dns_timeout has elapsed.
dns_lookup_elapsed ==
    /\ pc = "dns"
    /\ ~lookup_answered
    /\ lookup_elapsed
    /\ dns_return(DnsErr("Timeout"), trace)
    /\ UNCHANGED <<dns_unchanged, lookup_at>>

\* execute's own timeout elapses with the lookup in flight: the future is
\* dropped, on_dns_done is never called.
dns_dropped ==
    /\ pc = "dns"
    /\ ~lookup_answered
    /\ ~lookup_elapsed
    /\ now >= timeout
    /\ exec_ret' = "Timeout"
    /\ pc' = "done"
    /\ UNCHANGED <<dns_unchanged, lookup_at, trace, addrs, dns_ret>>

DnsTick ==
    /\ pc = "dns"
    /\ ~lookup_answered
    /\ ~lookup_elapsed
    /\ now < timeout
    /\ now' = now + 1
    /\ UNCHANGED <<config_vars, pc, exec_ret, racer_vars, trace>>

DnsNext ==
    \/ dns_resolve
    \/ dns_lookup_done
    \/ dns_lookup_elapsed
    \/ dns_dropped
    \/ DnsTick

DnsSpec == DnsInit /\ [][DnsNext]_vars

\* What the claims expect of the request's port and of a paired list.
ExpectedPort == IF uri_port # NoPort THEN uri_port ELSE IF is_https THEN 443 ELSE 80
Paired(a, ips) ==
    /\ Len(a) = Len(ips)
    /\ \A k \in 1..Len(ips) : a[k] = <<ips[k], ExpectedPort>>
Resolved == dns_ret.kind # "none"

C17_OverrideFastPath ==
    (has_host /\ pc # "start" /\ dns_overrides # <<>> /\ dns_overrides[1] # <<>>) =>
        /\ dns_ret.kind = "Ok"
        /\ Paired(dns_ret.addrs, dns_overrides[1])
        /\ dns_ret.hit_cache
        /\ lookup_at = Never
        /\ now = 0
        /\ pc = "tcp" /\ addrs = Len(dns_overrides[1])

C17_Witness ==
    /\ pc = "tcp"
    /\ dns_overrides = << <<2, 1>> >>
    /\ dns_timeout = 0
    /\ uri_port = NoPort /\ is_https
    /\ dns_ret.addrs = << <<2, 443>>, <<1, 443>> >>

---------------------------------------------------------------------------
TlsStarts == Events("on_tls_start")
TlsDones == Events("on_tls_done")

---------------------------------------------------------------------------
Phases == {"dns", "tcp", "tls", "http"}

\* C15 as stated: an execute that ends after its overall deadline has
\* passed ends with the timeout error.
C15_DeadlineOutranks ==
    [][(pc \in Phases /\ now > timeout /\ pc' = "done") => exec_ret' = "Timeout"]_vars

\* C15, amended: once the overall deadline has passed execute ends, whatever
\* the phase and however long the phase's own timeout: by the deadline with
\* the timeout error and no further hook, or by the phase completing at that
\* poll with its own result; and the deadline never ends it early.
C15_OverallDeadline ==
    /\ (pc \in Phases /\ now >= timeout) ~> (pc = "done")
    /\ [][(pc \in Phases /\ pc' = "done" /\ exec_ret' = "Timeout" /\ trace' = trace) =>
            now >= timeout]_vars
    /\ [][(pc \in Phases /\ now >= timeout /\ pc' = "done" /\ exec_ret' # "Timeout") =>
            \/ pc = "dns" /\ exec_ret' \in {"Resolve", "EmptyResolveResult"}
            \/ pc = "tcp" /\ exec_ret' = result.kind
            \/ pc = "tls" /\ exec_ret' \in {"Rustls", "InvalidDnsName", "Io"}
            \/ pc = "http" /\ exec_ret' \in {"Response", "Hyper"}]_vars
    /\ [](pc \in Phases => now < timeout + MaxLate + 1)

C15_Witness ==
    /\ pc = "done" /\ exec_ret = "Timeout"
    /\ cpc = "dropped"
    /\ tcp_timeout = FAR_INTERVAL
    /\ now >= timeout
    /\ \E i \in Positions : task[i].st = "connecting" /\ conn[i] = "hangs"

---------------------------------------------------------------------------
\* The response after execute: the caller reads the body that
\* tcp_send_h1_request / tls_send_request handed over, a frame at a time.

body_unchanged == <<exec_config, timed_vars, dns_vars, exchange_vars, other_vars,
                    now, pc,
                    exec_ret,
                    racer_vars, trace>>

\* Response::chunk returns a data frame.
body_frame ==
    /\ exec_ret = "Response"
    /\ body = "unread"
    /\ body' = "partial"
    /\ UNCHANGED body_unchanged

\* Response::chunk returns None, Response::bytes returns: the body is over.
body_end ==
    /\ exec_ret = "Response"
    /\ body \in {"unread", "partial"}
    /\ body' = "finished"
    /\ UNCHANGED body_unchanged

\* A second passes while the caller waits for the next frame (time is
\* followed only as far as it can matter: a little past a finite timeout).
BodyTick ==
    /\ exec_ret = "Response"
    /\ body \in {"unread", "partial"}
    /\ timeout < FAR_INTERVAL
    /\ now < timeout + MaxLate
    /\ now' = now + 1
    /\ UNCHANGED <<config_vars, pc, exec_ret, racer_vars, trace>>

BodyNext ==
    \/ Next
    \/ body_frame
    \/ body_end
    \/ BodyTick

BodySpec == Init /\ [][BodyNext]_vars

\* C16: a body that has been read to its end was read within the request's
\* timeout, counted from the call of execute.
C16_BodyWithinTimeout ==
    body = "finished" => now <= timeout

---------------------------------------------------------------------------
\* The exchange in detail: what execute does with the request between the
\* return of tcp_connect and the response, for one address that connected.

USER_AGENT ==
    "Mozilla/5.0 (Windows NT 10.0; Win64; x64) AppleWebKit/537.36 (KHTML, like Gecko) Chrome/137.0.0.0 Safari/537.36"

\* Values the request and the handshake are drawn from.
HeaderNames == {"host", "user-agent", "accept"}
HeaderValues == {"", "custom"}
HeaderMaps == UNION {[D -> HeaderValues] : D \in SUBSET HeaderNames}
Versions == {"HTTP/1.1", "HTTP/2", "HTTP/3"}
Alpns == {<<>>, <<"h2">>, <<"http/1.1">>, <<"H2">>, <<"h2c">>}

Transport == 1

\* tcp_connect has just returned the transport of the only address.
ExchangeInit ==
    /\ has_host = TRUE
    /\ is_https \in BOOLEAN
    /\ timeout = FAR_INTERVAL
    /\ tcp_timeout = FAR_INTERVAL
    /\ now = 0
    /\ pc = "headers"
    /\ exec_ret = "none"
    /\ addrs = 1
    /\ conn = [i \in Positions |-> IF i = Transport THEN "connects" ELSE "hangs"]
    /\ next_addr = 2
    /\ timer = rearm(0)
    /\ deadline = tcp_timeout
    /\ tx_opt = FALSE
    /\ rx_alive = FALSE
    /\ chan = <<>>
    /\ cancel_sent = TRUE
    /\ cancel_alive = FALSE
    /\ result = Ok(Transport)
    /\ cpc = "returned"
    /\ task = [i \in Positions |->
                 IF i = Transport THEN [st |-> "finished", ret |-> Ok(i)] ELSE NoTask]
    /\ stream = [i \in Positions |-> IF i = Transport THEN "open" ELSE "none"]
    /\ trace = <<Hook("on_dns_start", 0, "-"), Hook("on_dns_done", 0, "Ok"),
                 Hook("on_tcp_start", Transport, "-"),
                 Hook("on_tcp_done", Transport, "Ok")>>
    /\ latency = [i \in Positions |-> 0]
    /\ launched = [i \in Positions |-> 0]
    /\ DnsIdle
    /\ body = "unread"
    /\ OtherIdle
    /\ disable_auto_set_header \in BOOLEAN
    /\ uri_host = "a.example"
    /\ version \in Versions
    /\ supplied \in HeaderMaps
    /\ headers = supplied
    /\ alpn = <<>>
    /\ framing = "none"
    /\ sent = <<>>

\* headers.get(name).is_none()
is_none(h, name) == name \notin DOMAIN h

\* headers.insert(name, value), for a name the map does not hold
insert(h, name, value) == [n \in DOMAIN h \cup {name} |-> IF n = name THEN value ELSE h[n]]

\* User-Agent inserted only together with Host.
set_auto_headers_nested(h, host) ==
    IF is_none(h, "host")
    THEN LET h1 == insert(h, "host", host) IN
         IF is_none(h1, "user-agent") THEN insert(h1, "user-agent", USER_AGENT) ELSE h1
    ELSE h

\* The two `if request.headers().get(..).is_none()` of execute, in order.
set_auto_headers(h, host) ==
    LET h1 == IF is_none(h, "host") THEN insert(h, "host", host) ELSE h IN
    IF is_none(h1, "user-agent") THEN insert(h1, "user-agent", USER_AGENT) ELSE h1

\* Any negotiated protocol taken for h2.
is_h2_any(a) == a # <<>>

\* `is_h2` of tls_send_request: Some(alpn) with the bytes of "h2".
is_h2(a) == a # <<>> /\ a[1] = "h2"

exchange_unchanged == <<exec_config, timed_vars, dns_vars, body_vars, other_vars,
                        disable_auto_set_header, uri_host, version, supplied, now,
                        addrs, conn, next_addr, timer, deadline, tx_opt, rx_alive,
                        chan, cancel_sent, cancel_alive, result, cpc, task>>

\* execute between tcp_connect and its next await: the automatic headers,
\* then the scheme's branch (tls_handshake begins with on_tls_start).
set_headers ==
    /\ pc = "headers"
    /\ headers' = IF disable_auto_set_header THEN headers
                  ELSE set_auto_headers(headers, uri_host)
    /\ pc' = after_tcp(is_https)
    /\ trace' = IF after_tcp(is_https) = "tls"
                THEN Append(trace, Hook("on_tls_start", result.stream, "-"))
                ELSE trace
    /\ UNCHANGED <<exchange_unchanged, exec_ret, stream, alpn, framing, sent>>

\* _tls_handshake returns the stream, with the protocol ALPN settled on.
tls_handshake_alpn ==
    /\ pc = "tls"
    /\ alpn' \in Alpns
    /\ trace' = Append(trace, Hook("on_tls_done", result.stream, "Ok"))
    /\ pc' = "http"
    /\ UNCHANGED <<exchange_unchanged, exec_ret, stream, headers, framing, sent>>

\* How a send_request ends: the response, or hyper's error with the
\* transport dropped.
exchange_ends ==
    /\ pc' = "done"
    /\ \/ exec_ret' = "Response" /\ UNCHANGED stream
       \/ exec_ret' = "Hyper" /\ stream' = drop_all(stream, {result.stream})

\* tcp_send_h1_request: http1::handshake, then request.try_into() is sent.
tcp_send_h1_request ==
    /\ pc = "http"
    /\ ~is_https
    /\ framing' = "http1"
    /\ sent' = <<headers>>
    /\ exchange_ends
    /\ UNCHANGED <<exchange_unchanged, headers, alpn, trace>>

\* tls_send_request: http2::handshake if is_h2, http1::handshake otherwise.
tls_send_request ==
    /\ pc = "http"
    /\ is_https
    /\ framing' = IF is_h2(alpn) THEN "http2" ELSE "http1"
    /\ sent' = <<headers>>
    /\ exchange_ends
    /\ UNCHANGED <<exchange_unchanged, headers, alpn, trace>>

ExchangeNext ==
    \/ set_headers
    \/ tls_handshake_alpn
    \/ tls_handshake_err
    \/ tcp_send_h1_request
    \/ tls_send_request

ExchangeSpec == ExchangeInit /\ [][ExchangeNext]_vars

\* C19: the exchange ran on HTTP/2 exactly when the scheme is HTTPS and the
\* handshake settled on the ALPN protocol h2; in every other case that an
\* exchange ran, it ran on HTTP/1.1, whatever version the request carries.
C19_Framing ==
    framing # "none" =>
        /\ framing = "http2" <=> (is_https /\ alpn = <<"h2">>)
        /\ framing = "http1" <=> ~(is_https /\ alpn = <<"h2">>)
        /\ ~is_https => alpn = <<>>

C19_Witness ==
    /\ framing = "http1"
    /\ is_https /\ alpn = <<"H2">>
    /\ version = "HTTP/2"

\* C20: without disable_auto_set_header the request sent holds the caller's
\* headers, its Host being the caller's or else the URI host and its
\* User-Agent the caller's or else the literal, each decided on its own;
\* with the flag the request sent holds exactly the caller's headers.
C20_AutoHeaders ==
    sent # <<>> =>
        LET h == sent[1] IN
        IF disable_auto_set_header
        THEN h = supplied
        ELSE /\ DOMAIN h = DOMAIN supplied \cup {"host", "user-agent"}
             /\ \A n \in DOMAIN supplied : h[n] = supplied[n]
             /\ "host" \notin DOMAIN supplied => h["host"] = uri_host
             /\ "user-agent" \notin DOMAIN supplied => h["user-agent"] = USER_AGENT

C20_Witness ==
    /\ sent # <<>>
    /\ ~disable_auto_set_header
    /\ DOMAIN supplied = {"host"}
    /\ supplied["host"] = ""
    /\ sent[1]["host"] = ""
    /\ sent[1]["user-agent"] = USER_AGENT

----
\* The StatsRecorder (stats.rs): the hooks an execution invokes on it, its
\* clones, and finish(), which turns what the hooks stored into a Stats.

MaxTime == 2
MaxExecutions == 2

\* dest.to_string() of the addresses an execution connects to, in list order.
StatsAddrs == <<"10.0.0.1:80", "10.0.0.2:80">>
StatsDests == {StatsAddrs[i] : i \in DOMAIN StatsAddrs}

ResultOk(v) == <<"Ok", v>>
ResultErr(e) == <<"Err", e>>
is_ok(r) == r[1] = "Ok"

\* The results the hooks are given, as the strings the recorder keeps.
DnsResults == {ResultOk("10.0.0.1:80,10.0.0.2:80"), ResultErr("dns error")}
TlsResults == {ResultOk("TLSv1_3"), ResultErr("tls error")}
TcpResults(dest) == {ResultOk(dest), ResultErr("tcp error")}

\* Instant::duration_since: zero when `earlier` is the later one.
duration_since(later, earlier) == IF later >= earlier THEN later - earlier ELSE 0

\* StatRecord::start: the start, or the far future.
start(record, t) == IF record.start = Never THEN t + FAR_INTERVAL ELSE record.start

Stat(d, x, e) == [duration |-> d, extend |-> x, error |-> e]

\* result.as_ref().and_then(|v| v.as_ref().ok().cloned()), and the same of err.
ok_of(r) == IF r # None /\ is_ok(r[1]) THEN Some(r[1][2]) ELSE None
err_of(r) == IF r # None /\ ~is_ok(r[1]) THEN Some(r[1][2]) ELSE None

\* done.map(|done| done.duration_since(record.start())).unwrap_or_default()
done_duration(record, t) ==
    IF record.done = Never THEN 0 ELSE duration_since(record.done, start(record, t))

total_since_dns_done(s, t) == duration_since(t, s.dns_stat.done)
total(s, t) == duration_since(t, start(s.dns_stat, t))

\* The body of finish() on the inner state s at the instant t.
Stats(s, t) ==
    [dns_stats |-> Stat(done_duration(s.dns_stat, t), ok_of(s.dns_stat.result),
                        err_of(s.dns_stat.result)),
     tcp_stats |->
        IF s.tcp_stats = None THEN None
        ELSE LET m == s.tcp_stats[1] IN
             Some({Stat(done_duration(m[key], t), Some(key), err_of(m[key].result)) :
                   key \in DOMAIN m}),
     tls_stats |->
        IF s.tls_stat = None THEN None
        ELSE LET r == s.tls_stat[1] IN
             Some(Stat(done_duration(r, t), ok_of(r.result), err_of(r.result))),
     request_stats |->
        IF s.request_stat = None THEN None
        ELSE LET r == s.request_stat[1] IN
             Some(Stat(duration_since(t, start(r, t)), ok_of(r.result), err_of(r.result))),
     total_duration |-> total(s, t)]

\* self.inner.lock(): the guard is had when no other thread holds it.
lock(g) == g = None

\* #[derive(Clone)] of a struct holding an Arc: the clone holds the same Arc.
clone_deep(h) ==
    [handles |-> Append(handles, Len(inner) + 1),
     inner |-> Append(inner, inner[handles[h]])]
clone(h) == [handles |-> Append(handles, handles[h]), inner |-> inner]

\* m with key bound to v (HashMap::insert).
map_insert(m, key, v) == [k \in DOMAIN m \cup {key} |-> IF k = key THEN v ELSE m[k]]

\* tcp_stats.get_or_insert(HashMap::new())
get_or_insert(opt) == IF opt = None THEN <<>> ELSE opt[1]

stats_unchanged == <<exec_config, timed_vars, dns_vars, body_vars, exchange_vars,
                     once_vars, builder_vars, socket_vars, now, pc, exec_ret, racer_vars,
                     trace>>

\* The hooks write through the handle h of the request's recorder.
store(h, s) == inner' = [inner EXCEPT ![handles[h]] = s]
cell(h) == inner[handles[h]]

\* The recorder of the execution under way: the clone made for its request.
Recorder == {Len(handles)}

\* The caller keeps a recorder and gives each request a clone of one it has.
StatsRecorder_clone ==
    \E h \in DOMAIN handles :
        /\ phase \in {"idle", "over"}
        /\ execs < MaxExecutions
        /\ Len(handles) = execs + 1
        /\ handles' = clone(h).handles
        /\ inner' = clone(h).inner
        /\ UNCHANGED <<stats_unchanged, guard, phase, execs, fired>>
        /\ report' = None

on_dns_start ==
    \E h \in Recorder :
        /\ phase \in {"idle", "over"}
        /\ execs < MaxExecutions
        /\ Len(handles) = execs + 2
        /\ lock(guard)
        /\ store(h, [cell(h) EXCEPT !.dns_stat.start = now])
        /\ phase' = "dns"
        /\ execs' = execs + 1
        /\ fired' = [NoFired EXCEPT !.dns_start = now]
        /\ UNCHANGED <<stats_unchanged, handles, guard>>
        /\ report' = None

\* on_dns_done takes the guard and stores the instant ...
on_dns_done ==
    \E h \in Recorder, dns_result \in DnsResults :
        /\ phase = "dns"
        /\ lock(guard)
        /\ store(h, [cell(h) EXCEPT !.dns_stat.done = now])
        /\ guard' = Some([hook |-> "on_dns_done", h |-> h, result |-> dns_result])
        /\ fired' = [fired EXCEPT !.dns_done = now, !.result = map_insert(@, "dns", dns_result)]
        /\ UNCHANGED <<stats_unchanged, handles, phase, execs>>
        /\ report' = None

\* ... and stores the cache hit and the result before it drops the guard.
on_dns_done_end ==
    /\ guard # None
    /\ guard[1].hook = "on_dns_done"
    /\ LET h == guard[1].h IN
       store(h, [cell(h) EXCEPT !.dns_hit_cache = FALSE,
                                !.dns_stat.result = Some(guard[1].result)])
    /\ guard' = None
    /\ phase' = IF is_ok(guard[1].result) THEN "tcp" ELSE "over"
    /\ UNCHANGED <<stats_unchanged, handles, execs, fired>>
        /\ report' = None

on_tcp_start ==
    \E h \in Recorder, dest \in StatsDests :
        /\ phase = "tcp"
        /\ Cardinality(DOMAIN fired.tcp_start) < Len(StatsAddrs)
        /\ dest = StatsAddrs[Cardinality(DOMAIN fired.tcp_start) + 1]
        /\ lock(guard)
        /\ LET tcp_stats == get_or_insert(cell(h).tcp_stats) IN
           store(h, [cell(h) EXCEPT !.tcp_stats =
                        Some(map_insert(tcp_stats, dest, StatRecord(now, Never, None)))])
        /\ fired' = [fired EXCEPT !.tcp_start = map_insert(@, dest, now)]
        /\ UNCHANGED <<stats_unchanged, handles, guard, phase, execs>>
        /\ report' = None

on_tcp_done ==
    \E h \in Recorder, dest \in StatsDests :
      \E tcp_result \in TcpResults(dest) :
        /\ phase = "tcp"
        /\ dest \in DOMAIN fired.tcp_start
        /\ dest \notin DOMAIN fired.tcp_done
        /\ lock(guard)
        /\ LET tcp_stats == get_or_insert(cell(h).tcp_stats) IN
           IF dest \in DOMAIN tcp_stats
           THEN /\ store(h, [cell(h) EXCEPT !.tcp_stats =
                        Some([tcp_stats EXCEPT ![dest].done = now])])
                /\ guard' = Some([hook |-> "on_tcp_done", h |-> h, dest |-> dest,
                                  result |-> tcp_result])
           ELSE /\ store(h, [cell(h) EXCEPT !.tcp_stats = Some(tcp_stats)])
                /\ guard' = Some([hook |-> "on_tcp_done", h |-> h, dest |-> "",
                                  result |-> tcp_result])
        /\ fired' = [fired EXCEPT !.tcp_done = map_insert(@, dest, now),
                                  !.result = map_insert(@, dest, tcp_result)]
        /\ UNCHANGED <<stats_unchanged, handles, phase, execs>>
        /\ report' = None

on_tcp_done_end ==
    /\ guard # None
    /\ guard[1].hook = "on_tcp_done"
    /\ LET h == guard[1].h
           dest == guard[1].dest
           tcp_stats == get_or_insert(cell(h).tcp_stats)
       IN  IF dest \in DOMAIN tcp_stats
           THEN store(h, [cell(h) EXCEPT !.tcp_stats =
                    Some([tcp_stats EXCEPT ![dest].result = Some(guard[1].result)])])
           ELSE UNCHANGED inner
    /\ guard' = None
    /\ phase' = IF is_ok(guard[1].result) THEN "connected" ELSE "tcp"
    /\ UNCHANGED <<stats_unchanged, handles, execs, fired>>
        /\ report' = None

on_tls_start ==
    \E h \in Recorder :
        /\ phase = "connected"
        /\ lock(guard)
        /\ store(h, [cell(h) EXCEPT !.tls_stat = Some(StatRecord(now, Never, None))])
        /\ phase' = "tls"
        /\ fired' = [fired EXCEPT !.tls_start = now]
        /\ UNCHANGED <<stats_unchanged, handles, guard, execs>>
        /\ report' = None

on_tls_done ==
    \E h \in Recorder, tls_result \in TlsResults :
        /\ phase = "tls"
        /\ lock(guard)
        /\ IF cell(h).tls_stat # None
           THEN /\ store(h, [cell(h) EXCEPT !.tls_stat = Some([@[1] EXCEPT !.done = now])])
                /\ guard' = Some([hook |-> "on_tls_done", h |-> h, result |-> tls_result,
                                  found |-> TRUE])
           ELSE /\ UNCHANGED inner
                /\ guard' = Some([hook |-> "on_tls_done", h |-> h, result |-> tls_result,
                                  found |-> FALSE])
        /\ fired' = [fired EXCEPT !.tls_done = now, !.result = map_insert(@, "tls", tls_result)]
        /\ UNCHANGED <<stats_unchanged, handles, phase, execs>>
        /\ report' = None

on_tls_done_end ==
    /\ guard # None
    /\ guard[1].hook = "on_tls_done"
    /\ LET h == guard[1].h IN
       IF guard[1].found
       THEN store(h, [cell(h) EXCEPT !.tls_stat =
                        Some([@[1] EXCEPT !.result = Some(guard[1].result)])])
       ELSE UNCHANGED inner
    /\ guard' = None
    /\ phase' = IF is_ok(guard[1].result) THEN "secured" ELSE "over"
    /\ UNCHANGED <<stats_unchanged, handles, execs, fired>>
        /\ report' = None

on_request_start ==
    \E h \in Recorder :
        /\ phase \in {"connected", "secured"}
        /\ lock(guard)
        /\ store(h, [cell(h) EXCEPT !.request_stat = Some(StatRecord(now, Never, None))])
        /\ phase' = "request"
        /\ fired' = [fired EXCEPT !.request_start = now]
        /\ UNCHANGED <<stats_unchanged, handles, guard, execs>>
        /\ report' = None

\* The execution returns (a response, an error or the overall deadline).
execution_over ==
    /\ phase \notin {"idle", "over"}
    /\ guard = None
    /\ phase' = "over"
    /\ UNCHANGED <<stats_unchanged, handles, inner, guard, execs, fired>>
        /\ report' = None

finish ==
    \E h \in DOMAIN handles :
        /\ lock(guard)
        /\ report' = Some(Stats(cell(h), now))
        /\ UNCHANGED <<stats_unchanged, handles, inner, guard, phase, execs, fired>>

\* The clock is read from the first hook on.
StatsTick ==
    /\ execs > 0
    /\ now < MaxTime
    /\ now' = now + 1
    /\ report' = None
    /\ UNCHANGED <<exec_config, timed_vars, dns_vars, body_vars, exchange_vars,
                   once_vars, builder_vars, socket_vars, pc, exec_ret, racer_vars,
                   trace>>
    /\ UNCHANGED <<handles, inner, guard, phase, execs, fired>>

\* Nothing has run yet: no request, no recorder in use, no handshake.
AllIdle ==
    /\ ExecuteInit
    /\ has_host /\ ~is_https
    /\ timeout = FAR_INTERVAL /\ tcp_timeout = FAR_INTERVAL
    /\ latency = [i \in 1..MaxAddrs |-> 0]
    /\ launched = [i \in 1..MaxAddrs |-> 0]
    /\ DnsIdle
    /\ body = "unread"
    /\ ExchangeIdle
    /\ OtherIdle

StatsInit == AllIdle

StatsNext ==
    \/ StatsRecorder_clone
    \/ on_dns_start
    \/ on_dns_done
    \/ on_dns_done_end
    \/ on_tcp_start
    \/ on_tcp_done
    \/ on_tcp_done_end
    \/ on_tls_start
    \/ on_tls_done
    \/ on_tls_done_end
    \/ on_request_start
    \/ execution_over
    \/ finish
    \/ StatsTick

StatsSpec == StatsInit /\ [][StatsNext]_vars

\* What the hooks of the one execution say a report made now must hold.
Elapsed(done, started) == IF done = Never THEN 0 ELSE done - started
ErrorOf(key) ==
    IF key \in DOMAIN fired.result /\ ~is_ok(fired.result[key])
    THEN Some(fired.result[key][2]) ELSE None
TcpStat(dest) ==
    Stat(IF dest \in DOMAIN fired.tcp_done
         THEN fired.tcp_done[dest] - fired.tcp_start[dest] ELSE 0,
         Some(dest), ErrorOf(dest))

\* C21: for the hooks of one execution, finish() reports the DNS duration as
\* dns_done - dns_start, each destination's TCP duration as its tcp_done -
\* tcp_start, the TLS duration as tls_done - tls_start, the request duration as
\* the instant of finish - request_start and the total as the instant of
\* finish - dns_start; a phase whose done hook has not fired, and a recorder
\* whose dns_start never fired, contribute zero, and a phase that ended in
\* error carries its error string.
C21_Durations ==
    report # None /\ execs <= 1 =>
        LET r == report[1] IN
        /\ r.dns_stats.duration = Elapsed(fired.dns_done, fired.dns_start)
        /\ r.dns_stats.error = ErrorOf("dns")
        /\ r.tcp_stats = IF fired.tcp_start = <<>> THEN None
                         ELSE Some({TcpStat(dest) : dest \in DOMAIN fired.tcp_start})
        /\ IF fired.tls_start = Never THEN r.tls_stats = None
           ELSE /\ r.tls_stats # None
                /\ r.tls_stats[1].duration = Elapsed(fired.tls_done, fired.tls_start)
                /\ r.tls_stats[1].error = ErrorOf("tls")
        /\ IF fired.request_start = Never THEN r.request_stats = None
           ELSE /\ r.request_stats # None
                /\ r.request_stats[1].duration = now - fired.request_start
        /\ r.total_duration = IF execs = 0 THEN 0 ELSE now - fired.dns_start

C21_Witness ==
    /\ report # None /\ execs = 1
    /\ report[1].dns_stats.duration = 1
    /\ report[1].total_duration = 2
    /\ report[1].tcp_stats # None
    /\ \E st \in report[1].tcp_stats[1] : st.duration = 1 /\ st.error = Some("tcp error")
    /\ \E st \in report[1].tcp_stats[1] : st.duration = 0 /\ st.error = None
    /\ report[1].request_stats # None
    /\ report[1].request_stats[1].duration = 0

\* The longest of the TCP sub-records that carry no error (the chosen
\* connection is one of them).
ChosenTcp(r) ==
    IF r.tcp_stats = None THEN 0
    ELSE Least({d \in 0..MaxTime :
                  \A st \in r.tcp_stats[1] : st.error = None => st.duration <= d})
SubDuration(opt) == IF opt = None THEN 0 ELSE opt[1].duration

\* C22: in every Stats report, whatever hooks one or more executions using
\* the recorder have invoked, total_duration is at least the DNS duration,
\* each TCP sub-record's duration, the TLS duration and the request duration,
\* and at least the sum of the serial phases (DNS, chosen TCP, TLS, request).
C22_TotalDominates ==
    report # None =>
        LET r == report[1] IN
        /\ r.total_duration >= r.dns_stats.duration
        /\ r.tcp_stats # None =>
              \A st \in r.tcp_stats[1] : r.total_duration >= st.duration
        /\ r.total_duration >= SubDuration(r.tls_stats)
        /\ r.total_duration >= SubDuration(r.request_stats)
        /\ r.total_duration >= r.dns_stats.duration + ChosenTcp(r)
                               + SubDuration(r.tls_stats) + SubDuration(r.request_stats)

\* The result a done hook was given is in the report: nothing of a hook is
\* seen before all of it is.
Whole(r) ==
    /\ "dns" \in DOMAIN fired.result =>
          /\ r.dns_stats.error = ErrorOf("dns")
          /\ r.dns_stats.error = None => r.dns_stats.extend # None
    /\ \A dest \in DOMAIN fired.tcp_done :
          \E st \in r.tcp_stats[1] : st.extend = Some(dest) /\ st.error = ErrorOf(dest)
    /\ "tls" \in DOMAIN fired.result =>
          /\ r.tls_stats[1].error = ErrorOf("tls")
          /\ r.tls_stats[1].error = None => r.tls_stats[1].extend # None

\* C23: all clones of a StatsRecorder share one state, so a report taken
\* through any of them shows the hooks invoked through any other; finish()
\* changes nothing of the recorded state and may be called at any moment, any
\* number of times; each hook and finish() act atomically under the mutex.
C23_SharedState ==
    /\ [](report # None =>
            /\ \A h \in DOMAIN handles : report[1] = Stats(cell(h), now)
            /\ execs > 0 => report[1].total_duration = now - fired.dns_start
            /\ Whole(report[1]))
    /\ [][report' # None => inner' = inner /\ handles' = handles /\ guard' = guard]_vars

C23_Witness ==
    /\ Len(handles) = 2
    /\ report # None
    /\ report[1].total_duration = 1
    /\ report[1].dns_stats.error = Some("dns error")

----
\* ensure_crypto_provider: the handshakes of a process, on any threads, all go
\* through INIT.call_once before they build their TLS configuration.

\* Once::call_once runs the closure in the caller that finds INIT incomplete.
incomplete_or_running(once) == once # "complete"
incomplete(once) == once = "incomplete"

once_unchanged == <<exec_config, timed_vars, dns_vars, body_vars, exchange_vars,
                    stats_vars, builder_vars, socket_vars, now, pc, exec_ret,
                    racer_vars, trace>>

\* Client::tls_handshake is entered.
tls_handshake_enter(t) ==
    /\ hs[t] = "idle"
    /\ hs' = [hs EXCEPT ![t] = "call_once"]
    /\ UNCHANGED <<once_unchanged, INIT, installs>>

\* call_once by the first caller: INIT is running and the closure is entered.
call_once_first(t) ==
    /\ hs[t] = "call_once"
    /\ incomplete(INIT)
    /\ INIT' = "running"
    /\ hs' = [hs EXCEPT ![t] = "closure"]
    /\ UNCHANGED <<once_unchanged, installs>>

\* The closure: default_provider().install_default(); INIT is complete.
install_default(t) ==
    /\ hs[t] = "closure"
    /\ installs' = installs + 1
    /\ INIT' = "complete"
    /\ hs' = [hs EXCEPT ![t] = "on_tls_start"]
    /\ UNCHANGED once_unchanged

\* call_once by a later caller: it blocks while INIT is running and returns
\* once INIT is complete.
call_once_done(t) ==
    /\ hs[t] = "call_once"
    /\ INIT = "complete"
    /\ hs' = [hs EXCEPT ![t] = "on_tls_start"]
    /\ UNCHANGED <<once_unchanged, INIT, installs>>

\* on_tls_start, then _tls_handshake begins to build the ClientConfig.
tls_config(t) ==
    /\ hs[t] = "on_tls_start"
    /\ hs' = [hs EXCEPT ![t] = "config"]
    /\ UNCHANGED <<once_unchanged, INIT, installs>>

tls_handshake_return(t) ==
    /\ hs[t] = "config"
    /\ hs' = [hs EXCEPT ![t] = "returned"]
    /\ UNCHANGED <<once_unchanged, INIT, installs>>

CryptoInit == AllIdle

CryptoNext ==
    \E t \in 1..MaxHandshakes :
        \/ tls_handshake_enter(t)
        \/ call_once_first(t)
        \/ install_default(t)
        \/ call_once_done(t)
        \/ tls_config(t)
        \/ tls_handshake_return(t)

CryptoSpec == CryptoInit /\ [][CryptoNext]_vars

\* C24: however many handshakes start concurrently and however they
\* interleave, the installation body runs exactly once, and it has completed
\* before any handshake goes on to build its TLS configuration.
C24_InstallOnce ==
    /\ installs <= 1
    /\ \A t \in 1..MaxHandshakes :
          hs[t] \in {"on_tls_start", "config", "returned"} =>
              installs = 1 /\ INIT = "complete"

C24_Witness ==
    /\ installs = 1
    /\ hs[1] = "config"
    /\ hs[2] = "config"
    /\ hs[3] = "call_once"

----
\* The RequestBuilder (request.rs): the verb helpers of Client that make one,
\* its setters, try_clone, build and send.

MaxCalls == 2

Methods == {"GET", "POST"}

\* The strings given to a verb helper, and what str::parse::<Uri> makes of
\* them: an absolute URI, a path without authority, and one that is no URI.
UriInputs == {"http://example.com/", "/index.html", "http://exa mple.com/"}
parse_uri(u) ==
    CASE u = "http://example.com/" -> ResultOk([scheme |-> "http", host |-> Some("example.com"),
                                               path |-> "/"])
      [] u = "/index.html" -> ResultOk([scheme |-> "", host |-> None, path |-> "/index.html"])
      [] OTHER -> ResultErr("Uri")

\* IntoUriSealed for &str: parse, then the host check of IntoUriSealed for Uri.
into_uri(u) ==
    LET parsed == parse_uri(u) IN
    IF ~is_ok(parsed) THEN parsed
    ELSE IF parsed[2].host # None THEN parsed ELSE ResultErr("HostRequired")

\* Request::new: the method and the URI, all else Default::default().
Request_new(method, uri) ==
    [method |-> method, uri |-> uri, headers |-> <<>>, body |-> None,
     timeout |-> None, version |-> "HTTP/1.1", recorder |-> None]

\* What the setters are given.  HeaderName::try_from and HeaderValue::try_from
\* refuse a name with a space and a value with a line feed.
NameInputs == {"accept", "bad name"}
ValueInputs == {"a", "bad\nvalue"}
valid_name(k) == k # "bad name"
valid_value(v) == v \notin {"bad\nvalue", "Bearer bad\nvalue"}
HeaderMapInputs == {<<>>, [n \in {"x-id"} |-> <<[value |-> "b", sensitive |-> FALSE]>>]}
Bodies == {[inner |-> "Reuseable", chunk |-> "abc"], [inner |-> "Streaming", chunk |-> ""]}
Tokens == {"t", "bad\nvalue"}
bearer(token) == IF token = "t" THEN "Bearer t" ELSE "Bearer bad\nvalue"

\* HeaderMap::append: one more value under the name.
append(h, key, value) ==
    [n \in DOMAIN h \cup {key} |->
        IF n \in DOMAIN h
        THEN IF n = key THEN Append(h[n], value) ELSE h[n]
        ELSE <<value>>]

\* header_sensitive: on an Ok request the name and the value are converted
\* and the header appended, or the conversion error becomes the request.
header_sensitive_anew(request, key, value, sensitive) ==
    IF ~valid_name(key) THEN ResultErr("Http(InvalidHeaderName)")
    ELSE IF ~valid_value(value) THEN ResultErr("Http(InvalidHeaderValue)")
    ELSE IF is_ok(request)
         THEN ResultOk([request[2] EXCEPT !.headers =
                   append(@, key, [value |-> value, sensitive |-> sensitive])])
         ELSE request
header_sensitive(request, key, value, sensitive) ==
    IF is_ok(request)
    THEN IF ~valid_name(key) THEN ResultErr("Http(InvalidHeaderName)")
         ELSE IF ~valid_value(value) THEN ResultErr("Http(InvalidHeaderValue)")
         ELSE ResultOk([request[2] EXCEPT !.headers =
                   append(@, key, [value |-> value, sensitive |-> sensitive])])
    ELSE request

\* Body::try_clone
Body_try_clone(b) ==
    IF b.inner = "Reuseable" THEN Some([inner |-> "Reuseable", chunk |-> b.chunk]) ELSE None

\* Request::try_clone
Request_try_clone_bare(req) ==
    IF req.body # None /\ Body_try_clone(req.body[1]) = None THEN None
    ELSE Some([Request_new(req.method, req.uri) EXCEPT
                 !.body = IF req.body = None THEN None ELSE Body_try_clone(req.body[1])])
\* Request::try_clone handing the recorder over as well.
Request_try_clone_recorder(req) ==
    IF req.body # None /\ Body_try_clone(req.body[1]) = None THEN None
    ELSE Some([Request_new(req.method, req.uri) EXCEPT
                 !.timeout = req.timeout,
                 !.headers = req.headers,
                 !.version = req.version,
                 !.recorder = req.recorder,
                 !.body = IF req.body = None THEN None ELSE Body_try_clone(req.body[1])])
Request_try_clone(req) ==
    IF req.body # None /\ Body_try_clone(req.body[1]) = None THEN None
    ELSE Some([Request_new(req.method, req.uri) EXCEPT
                 !.timeout = req.timeout,
                 !.headers = req.headers,
                 !.version = req.version,
                 !.body = IF req.body = None THEN None ELSE Body_try_clone(req.body[1])])

builder_unchanged == <<exec_config, timed_vars, dns_vars, body_vars, exchange_vars,
                       stats_vars, once_vars, socket_vars, now, exec_ret, racer_vars>>

\* The builder holds what a setter made of it; its first error is noted.
set(request, call) ==
    /\ bpc = "open"
    /\ calls < MaxCalls
    /\ builder' = request
    /\ calls' = calls + 1
    /\ first_error' = IF first_error = None /\ ~is_ok(request)
                      THEN Some(request[2]) ELSE first_error
    /\ last' = Some(call)
    /\ UNCHANGED <<builder_unchanged, pc, trace, bpc, returned, copy>>

\* Client::get, post, head and request.
Client_request ==
    \E method \in Methods, u \in UriInputs :
        /\ bpc = "new"
        /\ LET uri == into_uri(u)
               req == IF is_ok(uri) THEN ResultOk(Request_new(method, uri[2])) ELSE uri
           IN  /\ builder' = req
               /\ first_error' = IF is_ok(req) THEN None ELSE Some(req[2])
        /\ bpc' = "open"
        /\ last' = Some([op |-> "request", uri |-> u])
        /\ UNCHANGED <<builder_unchanged, pc, trace, calls, returned, copy>>

RequestBuilder_header ==
    \E key \in NameInputs, value \in ValueInputs :
        set(header_sensitive(builder, key, value, FALSE),
            [op |-> "header", key |-> key, value |-> value])

RequestBuilder_headers ==
    \E given \in HeaderMapInputs :
        set(IF is_ok(builder) THEN ResultOk([builder[2] EXCEPT !.headers = given])
            ELSE builder,
            [op |-> "headers", given |-> given])

\* format!("Bearer {}", token) is the value; the name is AUTHORIZATION.
RequestBuilder_bearer_auth ==
    \E token \in Tokens :
        set(header_sensitive(builder, "authorization", bearer(token), TRUE),
            [op |-> "bearer_auth"])

RequestBuilder_body ==
    \E b \in Bodies :
        set(IF is_ok(builder) THEN ResultOk([builder[2] EXCEPT !.body = Some(b)])
            ELSE builder,
            [op |-> "body"])

RequestBuilder_timeout ==
    set(IF is_ok(builder) THEN ResultOk([builder[2] EXCEPT !.timeout = Some(2)])
        ELSE builder,
        [op |-> "timeout"])

RequestBuilder_version ==
    set(IF is_ok(builder) THEN ResultOk([builder[2] EXCEPT !.version = "HTTP/2"])
        ELSE builder,
        [op |-> "version"])

RequestBuilder_recorder ==
    set(IF is_ok(builder) THEN ResultOk([builder[2] EXCEPT !.recorder = Some("recorder")])
        ELSE builder,
        [op |-> "recorder"])

\* RequestBuilder::try_clone: None unless the request is Ok and can be cloned.
RequestBuilder_try_clone ==
    /\ bpc = "open"
    /\ copy' = Some(IF is_ok(builder) /\ Request_try_clone(builder[2]) # None
                    THEN Some(ResultOk(Request_try_clone(builder[2])[1]))
                    ELSE None)
    /\ last' = Some([op |-> "try_clone"])
    /\ UNCHANGED <<builder_unchanged, pc, trace, builder, bpc, calls, returned,
                   first_error>>

RequestBuilder_build ==
    /\ bpc = "open"
    /\ returned' = Some(builder)
    /\ bpc' = "built"
    /\ last' = Some([op |-> "build"])
    /\ UNCHANGED <<builder_unchanged, pc, trace, builder, calls, copy, first_error>>

\* Request::try_clone on the request build() returned.
Request_try_clone_built ==
    /\ bpc = "built"
    /\ is_ok(returned[1])
    /\ copy' = Some(IF Request_try_clone(returned[1][2]) # None
                    THEN Some(ResultOk(Request_try_clone(returned[1][2])[1]))
                    ELSE None)
    /\ last' = Some([op |-> "try_clone"])
    /\ UNCHANGED <<builder_unchanged, pc, trace, builder, bpc, calls, returned,
                   first_error>>

\* send: self.request? returns the error, or else execute is called.
RequestBuilder_send ==
    /\ bpc = "open"
    /\ bpc' = "sent"
    /\ last' = Some([op |-> "send"])
    /\ returned' = IF is_ok(builder) THEN returned ELSE Some(builder)
    /\ UNCHANGED <<builder_unchanged, pc, trace, builder, calls, copy, first_error>>

\* Client::execute with the request send was left with.
Client_execute ==
    /\ bpc = "sent"
    /\ is_ok(builder)
    /\ execute

\* `if let Some(recorder) = request.recorder() { recorder.on_dns_start(..) }`
recorder_on_dns_start(req, tr) ==
    IF req.recorder = None THEN tr ELSE Append(tr, Hook("on_dns_start", 0, "-"))

\* Client::execute with the request try_clone made, up to the first await
\* of dns_resolve; the builder and the request it was made from are left.
Client_execute_clone ==
    /\ bpc \in {"open", "built"}
    /\ copy # None /\ copy[1] # None
    /\ LET req == copy[1][1][2] IN
         /\ req.uri.host # None
         /\ trace' = recorder_on_dns_start(req, trace)
    /\ bpc' = "clone_sent"
    /\ last' = Some([op |-> "execute_clone"])
    /\ UNCHANGED <<builder_unchanged, pc, builder, calls, returned, copy, first_error>>

BuilderInit == AllIdle

BuilderNext ==
    \/ Client_request
    \/ RequestBuilder_header
    \/ RequestBuilder_headers
    \/ RequestBuilder_bearer_auth
    \/ RequestBuilder_body
    \/ RequestBuilder_timeout
    \/ RequestBuilder_version
    \/ RequestBuilder_recorder
    \/ RequestBuilder_try_clone
    \/ RequestBuilder_build
    \/ Request_try_clone_built
    \/ RequestBuilder_send
    \/ Client_execute
    \/ Client_execute_clone

BuilderSpec == BuilderInit /\ [][BuilderNext]_vars

LastOp == IF last = None THEN "none" ELSE last[1].op
CanClone(req) == req.body = None \/ req.body[1].inner = "Reuseable"

\* C25: try_clone of a Request with no body or a reusable body returns Some
\* request whose method, URI, headers, version, timeout and body bytes are the
\* original's, and leaves the original as it was; with a streaming body it
\* returns None, and RequestBuilder::try_clone returns None as well when the
\* builder holds an error.
C25_TryClone ==
    /\ [](LastOp = "try_clone" =>
            LET src == IF bpc = "built" THEN returned[1] ELSE builder IN
            IF is_ok(src) /\ CanClone(src[2])
            THEN /\ copy[1] # None
                 /\ LET c == copy[1][1][2] IN
                    /\ c.method = src[2].method
                    /\ c.uri = src[2].uri
                    /\ c.headers = src[2].headers
                    /\ c.version = src[2].version
                    /\ c.timeout = src[2].timeout
                    /\ c.body = src[2].body
            ELSE copy[1] = None)
    /\ [][last' # None /\ last'[1].op = "try_clone" =>
            builder' = builder /\ returned' = returned]_vars

C25_Witness ==
    /\ LastOp = "try_clone"
    /\ bpc = "open"
    /\ copy[1] # None
    /\ copy[1][1][2].body = Some([inner |-> "Reuseable", chunk |-> "abc"])
    /\ DOMAIN copy[1][1][2].headers = {"accept"}

\* C26: a verb helper given a URI that does not parse or has no host returns
\* a RequestBuilder in an error state; from then on, and equally after a
\* header() with an invalid name or value, every setter leaves the first
\* error in place, build() and send() return that error, and send() starts no
\* DNS, TCP or TLS activity and fires no hook.
C26_ErrorLatch ==
    /\ LastOp = "request" /\ last[1].uri # "http://example.com/" => ~is_ok(builder)
    /\ LastOp = "header" /\ ~(valid_name(last[1].key) /\ valid_value(last[1].value)) =>
          ~is_ok(builder)
    /\ first_error # None =>
          /\ builder = ResultErr(first_error[1])
          /\ bpc \in {"built", "sent"} => returned = Some(ResultErr(first_error[1]))
          /\ pc = "start" /\ trace = <<>>

C26_Witness ==
    /\ bpc = "sent"
    /\ calls = MaxCalls
    /\ first_error = Some("HostRequired")
    /\ returned = Some(ResultErr("HostRequired"))
    /\ trace = <<>>

\* Every value h holds is held by g under the same name.
Carries(g, h) ==
    \A n \in DOMAIN h :
        /\ n \in DOMAIN g
        /\ \A i \in DOMAIN h[n] : \E j \in DOMAIN g[n] : g[n][j] = h[n][i]

\* C27: RequestBuilder::headers(h) merges h into the headers already set:
\* afterwards the request carries every header set before as well as every
\* header of h.
C27_HeadersMerge ==
    [][last' # None /\ last'[1].op = "headers" /\ is_ok(builder) =>
          /\ is_ok(builder')
          /\ Carries(builder'[2].headers, builder[2].headers)
          /\ Carries(builder'[2].headers, last'[1].given)]_vars

----
\* The racer with the instant of every launch noted, under the scheduling of
\* Spec: the coordinator may handle a timer up to MaxLate after it fired.

LateInit ==
    /\ ExecuteInit
    /\ has_host
    /\ latency = [i \in Positions |-> 0]
    /\ launched = [i \in Positions |-> NotLaunched]
    /\ DnsIdle
    /\ body = "unread"
    /\ ExchangeIdle
    /\ OtherIdle

LateNext ==
    \/ execute
    \/ dns_resolve_err
    \/ dns_resolve_ok
    \/ tcp_connect_deadline
    \/ timed_launch
    \/ tcp_connect_exhausted
    \/ tcp_connect_recv
    \/ tcp_connect_closed
    \/ tcp_connect_cancel
    \/ tcp_connect_return
    \/ \E i \in Positions : task_connected(i)
    \/ \E i \in Positions : task_io_error(i)
    \/ \E i \in Positions : task_cancelled(i)
    \/ \E i \in Positions : task_send(i)
    \/ \E i \in Positions : task_send_closed(i)
    \/ tls_handshake_ok
    \/ tls_handshake_err
    \/ send_request_ok
    \/ send_request_err
    \/ execute_timeout
    \/ Tick

LateSpec == LateInit /\ [][LateNext]_vars

\* C28: attempts are launched in list order, and two consecutive launches
\* are never less than FALLBACK_INTERVAL apart, even when the coordinator
\* handles a timer late.
C28_LaunchSpacing ==
    \A i \in Positions :
        i > 1 /\ launched[i] # NotLaunched =>
            /\ launched[i - 1] # NotLaunched
            /\ launched[i] - launched[i - 1] >= FALLBACK_INTERVAL

----
\* The attempts whose error outcome the coordinator received and handed to
\* on_tcp_done.
ReportedFailed == {trace[k][2] : k \in TcpErrDone}

\* C29: tcp_connect returns AllTcpConnectFailed only when the address
\* iterator is exhausted, the coordinator has dropped its sender and every
\* launched attempt has had its error outcome received and passed to
\* on_tcp_done; never while an address is untried or an attempt in flight.
C29_AllFailedOnlyWhenDone ==
    /\ [][result'.kind = "AllTcpConnectFailed" /\ result.kind # "AllTcpConnectFailed" =>
            /\ next_addr = addrs + 1
            /\ ~tx_opt
            /\ Running = {}
            /\ chan = <<>>
            /\ Started = 1..addrs
            /\ ReportedFailed = Started
            /\ TcpOkDone = {}
            /\ ~cancel_sent]_vars
    /\ [](result.kind = "AllTcpConnectFailed" =>
            /\ Started = 1..addrs
            /\ ReportedFailed = Started
            /\ Running = {})
    /\ [](exec_ret = "AllTcpConnectFailed" => result.kind = "AllTcpConnectFailed")

C29_Witness ==
    /\ addrs = 2
    /\ exec_ret = "AllTcpConnectFailed"
    /\ ReportedFailed = {1, 2}
    /\ now >= 2 * FALLBACK_INTERVAL

----
\* The cancel signal as an attempt sees it: a broadcast message, or the
\* broadcast channel closed.
CancelSignal == cancel_sent \/ ~cancel_alive
Cancelled(i) == task[i].ret.kind = "TcpDeadlineExceeded"

\* C30: a connect attempt that observes the cancel signal before its connect
\* completes ends with the per-attempt error TcpDeadlineExceeded and never
\* yields a transport; it then makes one attempt to send that outcome and
\* terminates whether or not the send succeeds.
C30_CancelledAttempt ==
    /\ [][\A i \in Positions :
            /\ task[i].st = "connecting" /\ task'[i] # task[i] /\ conn[i] = "hangs" =>
                  /\ CancelSignal
                  /\ task'[i] = [st |-> "sending", ret |-> Err("TcpDeadlineExceeded")]
                  /\ stream'[i] = "none"
            /\ task[i].st = "sending" /\ task'[i] # task[i] =>
                  /\ task'[i] = [task[i] EXCEPT !.st = "finished"]
                  /\ \/ rx_alive /\ chan' = Append(chan, [addr |-> i, ret |-> task[i].ret])
                     \/ ~rx_alive /\ chan' = chan
            /\ task[i].st = "finished" => task'[i] = task[i]]_vars
    /\ [](\A i \in Positions :
            Cancelled(i) =>
                /\ CancelSignal
                /\ stream[i] = "none"
                /\ task[i].st \in {"sending", "finished"}
                /\ Cardinality(EventsAt("on_tcp_done", i)) <= 1
                /\ \A k \in EventsAt("on_tcp_done", i) : trace[k][3] # "Ok")

C30_Witness ==
    \E i, j \in Positions :
        /\ i # j
        /\ Cancelled(i) /\ task[i].st = "finished" /\ ~cancel_sent /\ ~rx_alive
        /\ Cancelled(j) /\ task[j].st = "sending"

----
\* What the network lookup alone makes _dns_resolve return.
LookupInTime == lookup.after <= dns_timeout
EmptyOverride == dns_overrides = << <<>> >>

\* C31: with an empty list for the host in the override map, resolution does
\* what it does without an override: it calls the lookup at once, waits for
\* it no longer than dns_timeout, and returns the lookup's addresses with
\* hit_cache false, the lookup's error, a timeout or EmptyResolveResult.
C31_EmptyOverride ==
    (EmptyOverride /\ has_host /\ pc # "start") =>
        /\ lookup_at = 0
        /\ now <= lookup_at + dns_timeout
        /\ Resolved =>
              /\ dns_ret.kind = "Ok" <=>
                    (LookupInTime /\ lookup.kind = "Ok" /\ lookup.ips # <<>>)
              /\ dns_ret.kind = "Ok" =>
                    /\ ~dns_ret.hit_cache
                    /\ trace[2][2] = <<dns_ret.addrs, FALSE>>
                    /\ [k \in 1..Len(dns_ret.addrs) |-> dns_ret.addrs[k][1]] = lookup.ips
                    /\ now = lookup_at + lookup.after
              /\ dns_ret.kind = "Timeout" <=> ~LookupInTime
              /\ dns_ret.kind = "Timeout" => now = lookup_at + dns_timeout
              /\ dns_ret.kind = "EmptyResolveResult" <=>
                    (LookupInTime /\ lookup.kind = "Ok" /\ lookup.ips = <<>>)
              /\ dns_ret.kind = "Resolve" <=> (LookupInTime /\ lookup.kind = "Resolve")

C31_Witness ==
    /\ EmptyOverride
    /\ Resolved
    /\ dns_ret.kind = "Ok" /\ ~dns_ret.hit_cache /\ Len(dns_ret.addrs) = 2
    /\ lookup.after = 1 /\ dns_timeout = 2 /\ now = 1

----
\* The socket of an attempt: ClientBuilder's lookup strategy and local
\* address, build(), and the socket _tcp_connect makes before it connects.

LookupIpStrategy == {"Ipv4Only", "Ipv6Only", "Ipv4AndIpv6", "Ipv6thenIpv4", "Ipv4thenIpv6"}
LocalAddrs == {"192.0.2.1", "2001:db8::1"}
DestAddrs == {"198.51.100.7", "2001:db8::7"}

\* IpAddr::is_ipv4
is_ipv4(ip) == ip \in {"192.0.2.1", "198.51.100.7"}

\* self.lookup_ip_strategy.is_some_and(|v| v == Ipv6Only || v == Ipv6thenIpv4)
is_prefer_ipv6(strategy) ==
    strategy # None /\ (strategy[1] = "Ipv6Only" \/ strategy[1] = "Ipv6thenIpv4")

\* A socket of the destination's family.
socket_for_dest(local, dest, prefer) == IF is_ipv4(dest) THEN "v4" ELSE "v6"

\* The matches of _tcp_connect: TcpSocket::new_v4 or new_v6.
socket(local, dest, prefer) ==
    IF local # None
    THEN IF is_ipv4(local[1]) THEN "v4" ELSE "v6"
    ELSE IF prefer THEN "v6" ELSE "v4"

socket_unchanged == <<exec_config, timed_vars, dns_vars, body_vars, exchange_vars,
                      stats_vars, once_vars, builder_vars, now, pc, exec_ret,
                      racer_vars, trace>>

ClientBuilder_lookup_ip_strategy ==
    \E strategy \in LookupIpStrategy :
        /\ prefer_ipv6 = None
        /\ lookup_ip_strategy' = Some(strategy)
        /\ UNCHANGED <<socket_unchanged, local_addr, prefer_ipv6, sockets>>

ClientBuilder_local_addr ==
    \E addr \in LocalAddrs :
        /\ prefer_ipv6 = None
        /\ local_addr' = Some(addr)
        /\ UNCHANGED <<socket_unchanged, lookup_ip_strategy, prefer_ipv6, sockets>>

ClientBuilder_build ==
    /\ prefer_ipv6 = None
    /\ prefer_ipv6' = Some(is_prefer_ipv6(lookup_ip_strategy))
    /\ UNCHANGED <<socket_unchanged, lookup_ip_strategy, local_addr, sockets>>

\* _tcp_connect of the attempt at position i, up to its select.
tcp_socket(i) ==
    \E dest \in DestAddrs :
        /\ prefer_ipv6 # None
        /\ sockets[i] = None
        /\ \A j \in 1..(i - 1) : sockets[j] # None
        /\ sockets' = [sockets EXCEPT ![i] =
                          Some([dest |-> dest, family |-> socket(local_addr, dest, prefer_ipv6[1])])]
        /\ UNCHANGED <<socket_unchanged, lookup_ip_strategy, local_addr, prefer_ipv6>>

SocketInit == AllIdle

SocketNext ==
    \/ ClientBuilder_lookup_ip_strategy
    \/ ClientBuilder_local_addr
    \/ ClientBuilder_build
    \/ \E i \in Positions : tcp_socket(i)

SocketSpec == SocketInit /\ [][SocketNext]_vars

\* C32: prefer_ipv6 is true exactly when the configured lookup strategy is
\* Ipv6Only or Ipv6thenIpv4, and false with no strategy; the socket of every
\* attempt has the family of the local bind address when one is configured
\* and otherwise is IPv6 iff prefer_ipv6, whatever the destination's family.
C32_SocketFamily ==
    /\ prefer_ipv6 # None =>
          prefer_ipv6[1] = (lookup_ip_strategy \in {<<"Ipv6Only">>, <<"Ipv6thenIpv4">>})
    /\ \A i \in Positions :
          sockets[i] # None =>
              sockets[i][1].family =
                  IF local_addr = <<"192.0.2.1">> THEN "v4"
                  ELSE IF local_addr = <<"2001:db8::1">> THEN "v6"
                  ELSE IF prefer_ipv6[1] THEN "v6" ELSE "v4"

C32_Witness ==
    /\ lookup_ip_strategy = <<"Ipv6thenIpv4">>
    /\ local_addr = <<>>
    /\ sockets[1] = <<[dest |-> "198.51.100.7", family |-> "v6"]>>
    /\ sockets[2] = <<[dest |-> "2001:db8::7", family |-> "v6"]>>

----
\* The TCP hooks of the StatsRecorder invoked in any order and for any
\* destination, each under the mutex from its first statement to its last.

\* on_tcp_start on the inner state s at the instant t.
tcp_start_stored(s, dest, t) ==
    [s EXCEPT !.tcp_stats =
        Some(map_insert(get_or_insert(s.tcp_stats), dest, StatRecord(t, Never, None)))]

\* on_tcp_done that makes the record it does not find.
tcp_done_inserted(s, dest, res, t) ==
    [s EXCEPT !.tcp_stats =
        Some(map_insert(get_or_insert(s.tcp_stats), dest, StatRecord(Never, t, Some(res))))]

\* on_tcp_done on the inner state s at the instant t.
tcp_done_stored(s, dest, res, t) ==
    LET tcp_stats == get_or_insert(s.tcp_stats) IN
    IF dest \in DOMAIN tcp_stats
    THEN [s EXCEPT !.tcp_stats =
            Some([tcp_stats EXCEPT ![dest].done = t, ![dest].result = Some(res)])]
    ELSE [s EXCEPT !.tcp_stats = Some(tcp_stats)]

\* m without key.
map_remove(m, key) == [k \in DOMAIN m \ {key} |-> m[k]]

StatsRecorder_on_tcp_start ==
    \E h \in DOMAIN handles, dest \in StatsDests :
        /\ store(h, tcp_start_stored(cell(h), dest, now))
        /\ fired' = [fired EXCEPT !.tcp_start = map_insert(@, dest, now),
                                  !.tcp_done = map_remove(@, dest),
                                  !.result = map_remove(@, dest)]
        /\ report' = None
        /\ UNCHANGED <<stats_unchanged, handles, guard, phase, execs>>

StatsRecorder_on_tcp_done ==
    \E h \in DOMAIN handles, dest \in StatsDests :
      \E tcp_result \in TcpResults(dest) :
        /\ store(h, tcp_done_stored(cell(h), dest, tcp_result, now))
        /\ fired' = IF dest \in DOMAIN fired.tcp_start
                    THEN [fired EXCEPT !.tcp_done = map_insert(@, dest, now),
                                       !.result = map_insert(@, dest, tcp_result)]
                    ELSE [fired EXCEPT !.tcp_done = map_insert(@, "unknown", now)]
        /\ report' = None
        /\ UNCHANGED <<stats_unchanged, handles, guard, phase, execs>>

HookTick ==
    /\ now < MaxTime
    /\ now' = now + 1
    /\ report' = None
    /\ UNCHANGED <<exec_config, timed_vars, dns_vars, body_vars, exchange_vars,
                   once_vars, builder_vars, socket_vars, pc, exec_ret, racer_vars,
                   trace>>
    /\ UNCHANGED <<handles, inner, guard, phase, execs, fired>>

HookInit == AllIdle

HookNext ==
    \/ StatsRecorder_on_tcp_start
    \/ StatsRecorder_on_tcp_done
    \/ finish
    \/ HookTick

HookSpec == HookInit /\ [][HookNext]_vars

TcpRecords == IF report[1].tcp_stats = None THEN {} ELSE report[1].tcp_stats[1]

\* C33: after any sequence of hooks the report holds exactly one TCP
\* sub-record for each destination on_tcp_start fired for, tagged with that
\* destination and carrying the error of its on_tcp_done if that was an
\* error; a second on_tcp_start for a destination replaces its record, and an
\* on_tcp_done for a destination never started adds no record.
C33_TcpRecords ==
    report # None =>
        /\ \A dest \in DOMAIN fired.tcp_start :
              /\ Cardinality({st \in TcpRecords : st.extend = Some(dest)}) = 1
              /\ \A st \in TcpRecords :
                    st.extend = Some(dest) =>
                        /\ st.error = ErrorOf(dest)
                        /\ st.duration = IF dest \in DOMAIN fired.tcp_done
                                         THEN fired.tcp_done[dest] - fired.tcp_start[dest]
                                         ELSE 0
        /\ Cardinality(TcpRecords) = Cardinality(DOMAIN fired.tcp_start)

C33_Witness ==
    /\ report # None
    /\ "unknown" \in DOMAIN fired.tcp_done
    /\ DOMAIN fired.tcp_start = {"10.0.0.1:80"}
    /\ fired.tcp_start["10.0.0.1:80"] = 1
    /\ TcpRecords = {Stat(1, Some("10.0.0.1:80"), Some("tcp error"))}

----
\* The racer under the scheduling of Spec when the TCP deadline falls one
\* second before the stagger timer of some position fires.

ShortTimeouts == {n * FALLBACK_INTERVAL - 1 : n \in 1..MaxAddrs}

ShortInit ==
    /\ has_host \in BOOLEAN
    /\ is_https \in BOOLEAN
    /\ timeout \in RequestTimeouts
    /\ tcp_timeout \in ShortTimeouts
    /\ now = 0
    /\ pc = "start"
    /\ exec_ret = "none"
    /\ addrs = 0
    /\ conn = [i \in Positions |-> "hangs"]
    /\ next_addr = 1
    /\ timer = 0
    /\ deadline = 0
    /\ tx_opt = FALSE
    /\ rx_alive = FALSE
    /\ chan = <<>>
    /\ cancel_sent = FALSE
    /\ cancel_alive = FALSE
    /\ result = Err("Unknown")
    /\ cpc = "idle"
    /\ task = [i \in Positions |-> NoTask]
    /\ stream = [i \in Positions |-> "none"]
    /\ trace = <<>>
    /\ latency = [i \in Positions |-> 0]
    /\ launched = [i \in Positions |-> 0]
    /\ DnsIdle
    /\ body = "unread"
    /\ ExchangeIdle
    /\ OtherIdle

ShortSpec == ShortInit /\ [][Next]_vars

NoneConnects == \A i \in 1..addrs : conn[i] # "connects"
ShortDeadline == tcp_timeout < addrs * FALLBACK_INTERVAL

\* C34 as stated: when no address connects and tcp_timeout is shorter than
\* N * FALLBACK_INTERVAL, tcp_connect returns TcpDeadlineExceeded and never
\* AllTcpConnectFailed.
C34_NeverAllFailed ==
    (cpc = "returned" /\ NoneConnects /\ ShortDeadline) =>
        result.kind = "TcpDeadlineExceeded"

\* C34, amended: when no address connects and tcp_timeout is shorter than
\* N * FALLBACK_INTERVAL, tcp_connect returns TcpDeadlineExceeded or
\* AllTcpConnectFailed; the address list is found exhausted only by the
\* stagger timer armed after the last launch, so AllTcpConnectFailed is
\* never the result earlier than N * FALLBACK_INTERVAL after the start of
\* racing, and with a shorter tcp_timeout only after the deadline has passed
\* and every attempt has failed.
C34_ExhaustionTimer ==
    /\ (cpc = "returned" /\ NoneConnects /\ ShortDeadline) =>
          result.kind \in {"TcpDeadlineExceeded", "AllTcpConnectFailed"}
    /\ (pc = "tcp" /\ cpc = "select" /\ ~tx_opt) =>
          /\ next_addr = addrs + 1
          /\ now >= RaceStart + addrs * FALLBACK_INTERVAL
    /\ result.kind = "AllTcpConnectFailed" =>
          /\ now >= RaceStart + addrs * FALLBACK_INTERVAL
          /\ ShortDeadline => now > deadline
          /\ Cardinality(TcpErrDone) = addrs

C34_Witness ==
    /\ cpc = "returned"
    /\ addrs = 2 /\ AllRefused
    /\ tcp_timeout = 2 * FALLBACK_INTERVAL - 1
    /\ result.kind = "TcpDeadlineExceeded"
    /\ Cardinality(TcpErrDone) = 2
    /\ now = RaceStart + tcp_timeout

----
TcpEvents == Events("on_tcp_start") \cup Events("on_tcp_done")

\* C35: in one execution the recorder sees at most one on_tcp_done carrying
\* a success, its destination is the one whose transport tcp_connect
\* returns, and no on_tcp_start or on_tcp_done fires after it.
C35_OneSuccessDone ==
    /\ [](/\ Cardinality(TcpOkDone) <= 1
          /\ \A k \in TcpOkDone :
                /\ result = Ok(trace[k][2])
                /\ cpc # "select"
                /\ \A j \in TcpEvents : j <= k)
    /\ []((cpc = "returned" /\ result.kind = "Ok") => Cardinality(TcpOkDone) = 1)
    /\ [][TcpOkDone # {} =>
            \A j \in (DOMAIN trace' \ DOMAIN trace) :
                trace'[j][1] \notin {"on_tcp_start", "on_tcp_done"}]_vars

C35_Witness ==
    /\ pc = "http"
    /\ result = Ok(2)
    /\ Cardinality(TcpOkDone) = 1
    /\ Cardinality(TcpErrDone) = 1
    /\ \A k \in TcpOkDone : trace[k][2] = 2 /\ \A j \in TcpErrDone : j < k

----
\* C36: execute of a Request whose URI has no host returns HostRequired
\* before any recorder hook has fired and before any lookup or connect
\* attempt is made.
C36_HostRequired ==
    /\ [](~has_host =>
            /\ pc \in {"start", "done"}
            /\ pc = "done" => exec_ret = "HostRequired"
            /\ pc = "start" => exec_ret = "none"
            /\ trace = <<>>
            /\ now = 0
            /\ addrs = 0 /\ next_addr = 1
            /\ cpc = "idle"
            /\ \A i \in Positions : task[i] = NoTask /\ stream[i] = "none")
    /\ [][(pc = "start" /\ ~has_host) =>
            pc' = "done" /\ exec_ret' = "HostRequired"]_vars
    /\ [](exec_ret = "HostRequired" => ~has_host)

C36_Witness ==
    /\ ~has_host
    /\ pc = "done"
    /\ exec_ret = "HostRequired"
    /\ trace = <<>>
    /\ timeout = 2

----
Original == IF returned # None THEN returned[1] ELSE builder

\* C37: a Request made by try_clone never carries the original's recorder:
\* executing the clone fires no hook on the recorder attached to the
\* original, and the original keeps its recorder.
C37_CloneRecorder ==
    /\ []((copy # None /\ copy[1] # None) => copy[1][1][2].recorder = None)
    /\ [][(last' # None /\ last'[1].op \in {"try_clone", "execute_clone"}) =>
            /\ builder' = builder
            /\ returned' = returned
            /\ trace' = trace]_vars

C37_Witness ==
    /\ bpc = "clone_sent"
    /\ is_ok(Original)
    /\ Original[2].recorder = Some("recorder")
    /\ copy[1][1][2].recorder = None
    /\ trace = <<>>

====
